---------------------------- MODULE Spec2Model ----------------------------
(***************************************************************************)
(* Model of the detail window of src/src/c/wandb-for-pebble.c: metric      *)
(* paging, scrub mode, the scrub-family animations (scrub, bounce, wiggle, *)
(* exit), the repeat timer and the window life cycle.                      *)
(*                                                                         *)
(* Platform conventions used by the model (the Pebble SDK is not part of   *)
(* the repository):                                                        *)
(*  - a scheduled animation receives update(progress) calls with           *)
(*    increasing progress up to ANIMATION_NORMALIZED_MAX and then one      *)
(*    teardown call; the model samples NumTicks progress values;           *)
(*  - animation_unschedule removes the animation from the scheduler and    *)
(*    runs none of its callbacks: this is what do_scrub relies on when it  *)
(*    snaps the cursor and clears s_scrub_animation itself after the call; *)
(*  - animations and timers belong to the app, not to a window: they stay  *)
(*    scheduled across detail_window_unload unless the code cancels them.  *)
(***************************************************************************)
EXTENDS Integers, Sequences, FiniteSets, TLC

\* ------------------------------------------------------------------------
\* Bounds of the model
\* ------------------------------------------------------------------------

\* number of progress samples an animation receives before it completes
NumTicks == 3

\* number of samples kept of the shortest mock history (the mock histories
\* have 10, 11 and 12 samples; the model keeps the most recent
\* HistoryBase, HistoryBase + 1 and HistoryBase + 2 of them)
HistoryBase == 2

\* number of menu rows (runs) the model opens
RunsOpened == 1

\* number of metric pages per run the model keeps (the last ones of each run)
PagesKept == 2

\* number of button presses (Up, Down, Select, Back, menu select) the model
\* follows
MaxInputs == 6

\* number of scrub-family animations that can be scheduled at once before
\* the model stops starting new ones
MaxScheduled == 2

\* ------------------------------------------------------------------------
\* Program constants
\* ------------------------------------------------------------------------

SCRUB_FIXED_SCALE == 1000
FIXED_POINT_SCALE == 10000
ANIMATION_NORMALIZED_MAX == 65535
MAX_VALUE_LENGTH == 16
MockShortest == 10

NULL == 0

\* ------------------------------------------------------------------------
\* C integer arithmetic
\* ------------------------------------------------------------------------

Abs(x) == IF x < 0 THEN -x ELSE x

\* C division truncates toward zero
CDiv(a, b) == IF (a >= 0) = (b > 0) THEN Abs(a) \div Abs(b) ELSE -(Abs(a) \div Abs(b))

\* C remainder has the sign of the dividend
CMod(a, b) == a - b * CDiv(a, b)

\* conversion to uint8_t
ToUint8(x) == x % 256

\* int32_t: the type of the codec's result and of the history samples.
\* Signed overflow is undefined in C; the arm-none-eabi build of the app
\* computes it in two's complement, which is the outcome modelled here.
INT32_MAX == 2147483647

INT32_MIN == -INT32_MAX - 1

\* conversion to int16_t (two's complement)
Wrap16(x) == (((x % 65536) + 32768) % 65536) - 32768

\* a + b in int32_t
Add32(a, b) ==
    IF b >= 0 /\ a > INT32_MAX - b THEN (((a - INT32_MAX) - 1) + b) - INT32_MAX - 1
    ELSE IF b < 0 /\ a < INT32_MIN - b THEN (((a + INT32_MAX) + 1) + b) + INT32_MAX + 1
    ELSE a + b

\* -a in int32_t
Neg32(a) == IF a = INT32_MIN THEN INT32_MIN ELSE -a

\* a - b in int32_t
Sub32(a, b) == IF b = INT32_MIN THEN Add32(Add32(a, INT32_MAX), 1) ELSE Add32(a, -b)

\* a * b in int32_t, for a 16-bit factor b (|b| <= 32768)
Mul32(a, b) ==
    LET ah == a \div 65536
        al == a % 65536
        low == al * b
        hi == Wrap16(ah * b + (low \div 65536))
    IN  hi * 65536 + (low % 65536)

\* ------------------------------------------------------------------------
\* Strings as sequences of characters
\* ------------------------------------------------------------------------

Digits == <<"0", "1", "2", "3", "4", "5", "6", "7", "8", "9">>

IsDigit(c) == \E d \in 1..10 : Digits[d] = c

DigitVal(c) == (CHOOSE d \in 1..10 : Digits[d] = c) - 1

RECURSIVE DecimalText(_)
\* "%ld"
DecimalText(n) ==
    IF n < 0 THEN <<"-">> \o DecimalText(-n)
    ELSE IF n < 10 THEN <<Digits[n + 1]>>
    ELSE DecimalText(n \div 10) \o <<Digits[(n % 10) + 1]>>

\* "%ld" where "%0<width>ld" is meant: no padding
ZeroPad_None(s, width) == s

RECURSIVE ZeroPad(_, _)
\* "%0<width>ld": pad with zeros, after the sign, to at least width characters
ZeroPad(s, width) ==
    IF Len(s) >= width THEN s
    ELSE IF s[1] = "-" THEN <<"-">> \o ZeroPad(Tail(s), width - 1)
    ELSE ZeroPad(<<"0">> \o s, width)

\* snprintf keeps at most size - 1 characters
Truncate(s, size) == IF Len(s) <= size - 1 THEN s ELSE SubSeq(s, 1, size - 1)

RECURSIVE Pow10(_)
Pow10(n) == IF n <= 0 THEN 1 ELSE 10 * Pow10(n - 1)

\* ------------------------------------------------------------------------
\* Fixed-point codec
\* ------------------------------------------------------------------------

RECURSIVE ParseLoop(_, _, _, _, _)
\* the while loop of parse_fixed_point: returns <<result, decimal_places>>
ParseLoop(str, i, result, decimal_places, seen_decimal) ==
    IF i > Len(str) THEN <<result, decimal_places>>
    ELSE IF str[i] = "." THEN ParseLoop(str, i + 1, result, decimal_places, TRUE)
    ELSE IF IsDigit(str[i]) THEN
        LET r == Add32(Mul32(result, 10), DigitVal(str[i]))
            d == IF seen_decimal THEN decimal_places + 1 ELSE decimal_places
        IN  IF seen_decimal /\ d >= 4 THEN <<r, d>>
            ELSE ParseLoop(str, i + 1, r, d, seen_decimal)
    ELSE <<result, decimal_places>>

\* parse_fixed_point: [value |-> scaled integer, decimals |-> decimal places]
parse_fixed_point(str) ==
    LET negative == Len(str) > 0 /\ str[1] = "-"
        sign == IF negative THEN -1 ELSE 1
        start == IF negative THEN 2 ELSE 1
        scanned == ParseLoop(str, start, 0, 0, FALSE)
        scaled == Mul32(scanned[1], Pow10(4 - scanned[2]))
    IN  [value |-> IF sign = -1 THEN Neg32(scaled) ELSE scaled, decimals |-> scanned[2]]

\* format_fixed_point into a buffer of MAX_VALUE_LENGTH bytes
format_fixed_point(value, decimals) ==
    LET negative == value < 0
        v == IF negative THEN Neg32(value) ELSE value
        integer_part == CDiv(v, FIXED_POINT_SCALE)
        frac_part == CMod(v, FIXED_POINT_SCALE)
        sign == IF negative THEN <<"-">> ELSE <<>>
    IN  IF decimals = 0
        THEN Truncate(sign \o DecimalText(integer_part), MAX_VALUE_LENGTH)
        ELSE LET divisor == Pow10(4 - decimals)
                 frac == CDiv(frac_part, divisor)
             IN  Truncate(sign \o DecimalText(integer_part) \o <<".">>
                          \o ZeroPad(DecimalText(frac), decimals), MAX_VALUE_LENGTH)

\* ------------------------------------------------------------------------
\* Mock data (init_mock_data)
\* ------------------------------------------------------------------------

MockValues ==
    << << <<"0", ".", "9", "5", "2", "3">>, <<"0", ".", "0", "2", "3", "4">>,
          <<"5", "0">>, <<"0", ".", "0", "0", "0", "1">> >>,
       << <<"1", "2", ".", "4", "5">>, <<"1", "2", "0">>,
          <<"5", "0">>, <<"2", ".", "3", "4", "1">> >>,
       << <<"4", "8", ".", "7", "2">>, <<"1", "0", "0">>,
          <<"0", ".", "0", "5">>, <<"9", "8">> >> >>

MockHistory ==
    << << <<5000, 6500, 7200, 7800, 8200, 8500, 8800, 9000, 9200, 9350, 9450, 9523>>,
          <<8500, 6200, 4500, 3200, 2100, 1400, 900, 600, 400, 300, 250, 234>>,
          <<0, 50000, 100000, 150000, 200000, 250000, 300000, 350000, 400000, 450000, 500000>>,
          <<10, 10, 10, 5, 5, 5, 2, 2, 1, 1>> >>,
       << <<4500000, 3200000, 2200000, 1500000, 1000000, 700000, 500000, 350000,
            250000, 180000, 150000, 124500>>,
          <<100000, 200000, 350000, 500000, 650000, 800000, 900000, 1000000, 1100000, 1200000>>,
          <<0, 50000, 100000, 150000, 200000, 250000, 300000, 350000, 400000, 450000, 500000>>,
          <<95000, 72000, 58000, 45000, 38000, 32000, 29000, 26500, 25000, 24000, 23410>> >>,
       << <<-50000, 20000, 80000, 150000, 200000, 250000, 300000, 350000, 400000,
            430000, 460000, 487200>>,
          <<0, 100000, 200000, 300000, 400000, 500000, 600000, 700000, 800000, 900000, 1000000>>,
          <<10000, 9000, 8000, 7000, 5000, 3500, 2000, 1500, 1000, 700, 500>>,
          <<10000, 50000, 120000, 250000, 400000, 550000, 680000, 780000, 860000, 930000, 980000>> >> >>

Min(a, b) == IF a < b THEN a ELSE b

\* s_app_data.num_runs, restricted to the rows the model opens
num_runs == Min(Len(MockValues), RunsOpened)

\* run->num_metrics, restricted to the pages the model keeps
num_metrics(run) == Min(Len(MockValues[run + 1]), PagesKept)

\* the mock metric behind a page of the model (0-based)
MockPage(run, page) == Len(MockValues[run + 1]) - num_metrics(run) + page

\* metric->history_count of the scaled history
history_count(run, page) ==
    Len(MockHistory[run + 1][MockPage(run, page) + 1]) - (MockShortest - HistoryBase)

\* mutant of history: every sample is the one recorded before it
history_OneEarlier(run, page, i) ==
    MockHistory[run + 1][MockPage(run, page) + 1][i + (MockShortest - HistoryBase)]

\* metric->history[i] of the scaled history (0-based i)
history(run, page, i) ==
    MockHistory[run + 1][MockPage(run, page) + 1][i + 1 + (MockShortest - HistoryBase)]

\* metric->value
metric_value(run, page) == MockValues[run + 1][MockPage(run, page) + 1]

\* ------------------------------------------------------------------------
\* State
\* ------------------------------------------------------------------------

VARIABLES
    window,                      \* "menu" or "detail": which window is loaded
    selected_run_index,          \* s_app_data.selected_run_index
    current_metric_page,         \* s_app_data.current_metric_page
    s_graph_display_page,
    name_text,                   \* text of s_name_layer: [page, past] or NoText
    value_text,                  \* text of s_value_layer
    s_current_animation,         \* handle of the last paging animation
    scroll_anims,                \* scheduled paging animations, by handle
    s_value_from, s_value_to, s_value_decimals,
    s_scrub_mode, s_scrub_index,
    s_scrub_animation,           \* handle of the current scrub-family animation
    scrub_anims,                 \* scheduled scrub-family animations, by handle
    s_scrub_from_index_fixed, s_scrub_to_index_fixed, s_scrub_current_index_fixed,
    s_bounce_target_fixed, s_bounce_return_fixed,
    s_wiggle_start_fixed, s_wiggle_amount,
    s_scrub_repeat_timer,        \* TRUE while the repeat timer is registered
    s_scrub_repeat_direction,
    up_held, down_held,          \* the Up / Down button is down (raw click)
    inputs                       \* number of button presses handled so far

app_vars == <<window, selected_run_index, current_metric_page>>
display_vars == <<s_graph_display_page, name_text, value_text>>
scroll_vars == <<s_current_animation, scroll_anims, s_value_from, s_value_to,
                 s_value_decimals>>
cursor_vars == <<s_scrub_from_index_fixed, s_scrub_to_index_fixed,
                 s_scrub_current_index_fixed, s_bounce_target_fixed,
                 s_bounce_return_fixed>>
wiggle_vars == <<s_wiggle_start_fixed, s_wiggle_amount>>
scrub_vars == <<s_scrub_mode, s_scrub_index, s_scrub_animation, scrub_anims>>
timer_vars == <<s_scrub_repeat_timer, s_scrub_repeat_direction>>
button_vars == <<up_held, down_held>>

\* the event loop takes one more button press
TakeInput == inputs < MaxInputs /\ inputs' = inputs + 1

vars == <<app_vars, display_vars, scroll_vars, cursor_vars, wiggle_vars, scrub_vars,
          timer_vars, button_vars, inputs>>

\* ------------------------------------------------------------------------
\* The animation scheduler
\* ------------------------------------------------------------------------

NoAnim == [kind |-> "none", tick |-> 0]
NoText == [page |-> 0, past |-> FALSE, shown |-> FALSE]
Handles == 1..MaxScheduled

\* a handle that is no longer scheduled (the animation completed)
Stale == -1

Scheduled(anims) == {h \in Handles : anims[h] # NoAnim}

HasFree(anims) == \E h \in Handles : anims[h] = NoAnim

FreeHandle(anims) == CHOOSE h \in Handles :
                        /\ anims[h] = NoAnim
                        /\ \A g \in Handles : anims[g] = NoAnim => h <= g

\* animation_create + animation_schedule
animation_schedule(anims, h, kind) == [anims EXCEPT ![h] = [kind |-> kind, tick |-> 0]]

\* animation_unschedule: no callback of the animation runs
animation_unschedule(anims, h) ==
    IF h \in Handles THEN [anims EXCEPT ![h] = NoAnim] ELSE anims

\* progress value of the k-th update of an animation
Progress(k) == (k * ANIMATION_NORMALIZED_MAX) \div NumTicks

\* ------------------------------------------------------------------------
\* Initial state (prv_init: mock data, main menu window)
\* ------------------------------------------------------------------------

\* the codec, called on its own (the specification CodecSpec below)
VARIABLES
    codec_pc,                    \* "off", "call", "parsed" or "formatted"
    in_str,                      \* the string handed to parse_fixed_point
    out_value,                   \* its return value
    out_decimals,                \* *decimals
    out_buffer                   \* the buffer format_fixed_point fills

codec_vars == <<codec_pc, in_str, out_value, out_decimals, out_buffer>>

CodecIdle ==
    /\ codec_pc = "off"
    /\ in_str = <<>>
    /\ out_value = 0
    /\ out_decimals = 0
    /\ out_buffer = <<>>

\* the graph layer's update procedure, called on its own (GraphSpec below)
VARIABLES
    graph_pc,                    \* "off", "call", "skipped" or "drawn"
    samples,                     \* metric->history[0 .. history_count - 1]
    bounds,                      \* layer_get_bounds(layer).size: [w, h]
    min_val,
    max_val,
    range,
    points,                      \* points[0 .. history_count - 1]: [x, y]
    graph_scrub_mode,            \* s_scrub_mode as the procedure reads it
    graph_index_fixed,           \* s_scrub_current_index_fixed as it reads it
    graph_idx_int,               \* idx_int when points[idx_int] is read, else -1
    indicator_point              \* [x, y]

graph_vars == <<graph_pc, samples, bounds, min_val, max_val, range, points,
                graph_scrub_mode, graph_index_fixed, graph_idx_int, indicator_point>>

GraphIdle ==
    /\ graph_pc = "off"
    /\ samples = <<>>
    /\ bounds = [w |-> 0, h |-> 0]
    /\ min_val = 0
    /\ max_val = 0
    /\ range = 0
    /\ points = <<>>
    /\ graph_scrub_mode = FALSE
    /\ graph_index_fixed = 0
    /\ graph_idx_int = -1
    /\ indicator_point = [x |-> 0, y |-> 0]

\* the companion's packInt64Array, called on its own (PackSpec below)
VARIABLES
    pack_pc,                     \* "off", "call" or "packed"
    values,                      \* the argument: numbers as [neg, mag]
    packed                       \* the returned array of bytes

pack_vars == <<pack_pc, values, packed>>

PackIdle ==
    /\ pack_pc = "off"
    /\ values = <<>>
    /\ packed = <<>>

\* set_metric_history, called on its own (HistorySpec below)
VARIABLES
    history_pc,                  \* "off", "call" or "stored"
    offered,                     \* the arguments values[0 .. count - 1]
    metric_history,              \* the written part of metric->history[0 .. 19]
    metric_history_count,        \* metric->history_count
    past_end                     \* what was written behind metric->history[19]

history_vars == <<history_pc, offered, metric_history, metric_history_count, past_end>>

HistoryIdle ==
    /\ history_pc = "off"
    /\ offered = <<>>
    /\ metric_history = <<>>
    /\ metric_history_count = 0
    /\ past_end = <<>>

\* the companion's sendRunsToWatch, called on its own (RunsSpec below)
VARIABLES
    send_pc,                     \* "off", "call", "sent", "done" or "failed"
    runs,                        \* the argument: an array of [name, state]
    send_index,                  \* index of the closure sendNext
    outbox                       \* the messages handed to Pebble.sendAppMessage

send_vars == <<send_pc, runs, send_index, outbox>>

SendIdle ==
    /\ send_pc = "off"
    /\ runs = <<>>
    /\ send_index = 0
    /\ outbox = <<>>

\* update_scrub_value_display_interpolated, called on its own (InterpSpec
\* below)
VARIABLES
    interp_pc,                   \* "off", "call", "shown", "enter" or "entered"
    interp_history,              \* metric->history[0 .. history_count - 1]
    interp_display,              \* metric->value
    interp_index_fixed,          \* the argument index_fixed
    interp_value,                \* history_value
    interp_text,                 \* s_scrub_value_buffer
    interp_scrub_index,          \* s_scrub_index
    interp_reads                 \* the indices i at which history[i] was read

interp_vars == <<interp_pc, interp_history, interp_display, interp_index_fixed,
                 interp_value, interp_text, interp_scrub_index, interp_reads>>

InterpIdle ==
    /\ interp_pc = "off"
    /\ interp_history = <<>>
    /\ interp_display = <<>>
    /\ interp_index_fixed = 0
    /\ interp_value = 0
    /\ interp_text = <<>>
    /\ interp_scrub_index = 0
    /\ interp_reads = {}

VARIABLES
    value_anim_pc,               \* "off", "create", "running" or "done"
    from_value,                  \* the old page's metric->value
    to_value,                    \* the new page's metric->value
    value_anim_progress          \* the progress of the last update, -1 before it

value_anim_vars == <<value_anim_pc, from_value, to_value, value_anim_progress>>

ValueAnimIdle ==
    /\ value_anim_pc = "off"
    /\ from_value = <<>>
    /\ to_value = <<>>
    /\ value_anim_progress = -1

\* the companion's WandbClient.prototype.request, called on its own
\* (RequestSpec below)
VARIABLES
    request_pc,                  \* "off", "call", "in_flight", "timer" or "returned"
    currentRetry,                \* the argument retryCount of the running attempt
    attempts,                    \* the events the attempts made so far ended with
    callback_calls               \* the arguments of the calls of callback so far

request_vars == <<request_pc, currentRetry, attempts, callback_calls>>

RequestIdle ==
    /\ request_pc = "off"
    /\ currentRetry = 0
    /\ attempts = <<>>
    /\ callback_calls = <<>>

\* the companion's WandbClient.prototype.fetchAllRuns, called on its own
\* (FetchSpec below)
VARIABLES
    fetch_pc,                    \* "off", "viewer", "projects", "runs" or "done"
    allProjects,                 \* the projects of the entity
    answers,                     \* what the run fetch of each project calls back with
    answered,                    \* the projects whose run fetch has called back
    pendingProjects,
    allRuns,
    fetch_callbacks              \* the arguments of the calls of callback so far

fetch_vars == <<fetch_pc, allProjects, answers, answered, pendingProjects, allRuns,
                fetch_callbacks>>

FetchIdle ==
    /\ fetch_pc = "off"
    /\ allProjects = <<>>
    /\ answers = <<>>
    /\ answered = {}
    /\ pendingProjects = 0
    /\ allRuns = <<>>
    /\ fetch_callbacks = <<>>

net_vars == <<request_vars, fetch_vars>>

NetIdle == RequestIdle /\ FetchIdle

\* everything outside the detail window's state machine
aux_vars == <<codec_vars, graph_vars, pack_vars, history_vars, send_vars, interp_vars,
              value_anim_vars, net_vars>>

AuxIdle ==
    /\ CodecIdle /\ GraphIdle /\ PackIdle /\ HistoryIdle /\ SendIdle /\ InterpIdle
    /\ ValueAnimIdle
    /\ NetIdle

AppInit ==
    /\ window = "menu"
    /\ selected_run_index = 0
    /\ current_metric_page = 0
    /\ s_graph_display_page = 0
    /\ name_text = NoText
    /\ value_text = <<>>
    /\ s_current_animation = NULL
    /\ scroll_anims = [h \in Handles |-> NoAnim]
    /\ s_value_from = 0
    /\ s_value_to = 0
    /\ s_value_decimals = 0
    /\ s_scrub_mode = FALSE
    /\ s_scrub_index = 0
    /\ s_scrub_animation = NULL
    /\ scrub_anims = [h \in Handles |-> NoAnim]
    /\ s_scrub_from_index_fixed = 0
    /\ s_scrub_to_index_fixed = 0
    /\ s_scrub_current_index_fixed = 0
    /\ s_bounce_target_fixed = 0
    /\ s_bounce_return_fixed = 0
    /\ s_wiggle_start_fixed = 0
    /\ s_wiggle_amount = 0
    /\ s_scrub_repeat_timer = FALSE
    /\ s_scrub_repeat_direction = 0
    /\ up_held = FALSE
    /\ down_held = FALSE
    /\ inputs = 0

Init == AppInit /\ AuxIdle

\* the metric of the current page
CurrentHistoryCount == history_count(selected_run_index, current_metric_page)

\* a text layer shows the text only while the detail window's layers exist
ShownText(new, old) == IF window = "detail" THEN new ELSE old

\* ------------------------------------------------------------------------
\* Scrub mode: value text, animation updates
\* ------------------------------------------------------------------------

\* v1 + (v2 - v1) * frac / SCRUB_FIXED_SCALE in int32_t arithmetic
InterpolatedSample(v1, v2, frac) ==
    Add32(v1, CDiv(Mul32(Sub32(v2, v1), frac), SCRUB_FIXED_SCALE))

\* the clamped index_fixed of update_scrub_value_display_interpolated
ClampedIndex(index_fixed, count) ==
    LET max_fixed == (count - 1) * SCRUB_FIXED_SCALE
        low == IF index_fixed < 0 THEN 0 ELSE index_fixed
    IN  IF low > max_fixed THEN max_fixed ELSE low

\* history_value of update_scrub_value_display_interpolated, for the history
\* h[1 .. count] of a metric
HistoryValue(h, index_fixed) ==
    LET count == Len(h)
        clamped == ClampedIndex(index_fixed, count)
        idx_int == CDiv(clamped, SCRUB_FIXED_SCALE)
        frac == CMod(clamped, SCRUB_FIXED_SCALE)
    IN  IF idx_int >= count - 1 THEN h[count]
        ELSE InterpolatedSample(h[idx_int + 1], h[idx_int + 2], frac)

\* the indices at which update_scrub_value_display_interpolated reads
\* metric->history for a metric with count samples
HistoryReads(count, index_fixed) ==
    LET idx_int == CDiv(ClampedIndex(index_fixed, count), SCRUB_FIXED_SCALE)
    IN  IF idx_int >= count - 1 THEN {count - 1} ELSE {idx_int, idx_int + 1}

\* the text update_scrub_value_display_interpolated shows for a metric with
\* the history h and the display value display
ScrubValueText(h, display, index_fixed) ==
    format_fixed_point(HistoryValue(h, index_fixed), parse_fixed_point(display).decimals)

\* update_scrub_value_display_interpolated: the text it puts in the value layer
update_scrub_value_display_interpolated(index_fixed) ==
    LET run == selected_run_index
        page == current_metric_page
    IN  ScrubValueText([i \in 1..history_count(run, page) |-> history(run, page, i - 1)],
                       metric_value(run, page), index_fixed)

\* (int64_t)a * b / c for 0 <= a < 2^17, b >= 0 and 0 < c < 2^16, computed in
\* pieces that stay within the model checker's 32-bit integers
MulDivNat(a, b, c) ==
    LET q == b \div c
        r == b % c
        t == (a \div 256) * r
        rest == (t % c) * 256 + (a % 256) * r
    IN  a * q + (t \div c) * 256 + rest \div c

\* (int64_t)progress * delta / ANIMATION_NORMALIZED_MAX, truncated toward zero
ScaleByProgress(progress, delta) ==
    IF delta >= 0 THEN MulDivNat(progress, delta, ANIMATION_NORMALIZED_MAX)
    ELSE -MulDivNat(progress, -delta, ANIMATION_NORMALIZED_MAX)

\* linear interpolation  from + progress * (to - from) / ANIMATION_NORMALIZED_MAX
Interpolate(from, to, progress) == from + ScaleByProgress(progress, to - from)

\* scrub_animation_update: the new cursor position
scrub_animation_update(progress) ==
    Interpolate(s_scrub_from_index_fixed, s_scrub_to_index_fixed, progress)

\* mutant of bounce_animation_update: the way back does not subtract the half
bounce_animation_update_NoHalf(progress) ==
    IF progress < ANIMATION_NORMALIZED_MAX \div 2
    THEN Interpolate(s_scrub_from_index_fixed, s_bounce_target_fixed, progress * 2)
    ELSE Interpolate(s_bounce_target_fixed, s_bounce_return_fixed, progress * 2)

\* bounce_animation_update: the new cursor position
bounce_animation_update(progress) ==
    IF progress < ANIMATION_NORMALIZED_MAX \div 2
    THEN Interpolate(s_scrub_from_index_fixed, s_bounce_target_fixed, progress * 2)
    ELSE Interpolate(s_bounce_target_fixed, s_bounce_return_fixed,
                     (progress - ANIMATION_NORMALIZED_MAX \div 2) * 2)

\* mutant of WiggleReturnOffset: the return swing is not halved
WiggleReturnOffset_Full(amount) == amount

\* the offset the wiggle swings out to on its way back (start_offset)
WiggleReturnOffset(amount) == CDiv(amount, 2)

\* mutant of wiggle_animation_update: the second phase swings back by one
\* amount only and stops on the start position
wiggle_animation_update_NoReturnSwing(progress) ==
    LET third == ANIMATION_NORMALIZED_MAX \div 3
        two_thirds == (2 * ANIMATION_NORMALIZED_MAX) \div 3
        offset ==
            IF progress < third
            THEN -CDiv((progress * 3) * s_wiggle_amount, ANIMATION_NORMALIZED_MAX)
            ELSE IF progress < two_thirds
            THEN -s_wiggle_amount
                 + CDiv(((progress - third) * 3) * s_wiggle_amount,
                        ANIMATION_NORMALIZED_MAX)
            ELSE LET start_offset == WiggleReturnOffset(s_wiggle_amount)
                 IN  start_offset
                     - CDiv(((progress - two_thirds) * 3) * start_offset,
                            ANIMATION_NORMALIZED_MAX)
    IN  s_wiggle_start_fixed + offset

\* wiggle_animation_update: the new cursor position
wiggle_animation_update(progress) ==
    LET third == ANIMATION_NORMALIZED_MAX \div 3
        two_thirds == (2 * ANIMATION_NORMALIZED_MAX) \div 3
        offset ==
            IF progress < third
            THEN -CDiv((progress * 3) * s_wiggle_amount, ANIMATION_NORMALIZED_MAX)
            ELSE IF progress < two_thirds
            THEN -s_wiggle_amount
                 + CDiv(CDiv(((progress - third) * 3) * s_wiggle_amount * 3, 2),
                        ANIMATION_NORMALIZED_MAX)
            ELSE LET start_offset == WiggleReturnOffset(s_wiggle_amount)
                 IN  start_offset
                     - CDiv(((progress - two_thirds) * 3) * start_offset,
                            ANIMATION_NORMALIZED_MAX)
    IN  s_wiggle_start_fixed + offset

\* update_scrub_name_display: the text it puts in the name layer
update_scrub_name_display(mode, index) ==
    [page |-> current_metric_page,
     past |-> mode /\ index < CurrentHistoryCount - 1,
     shown |-> TRUE]

\* the plain (upper-case) metric name of a page
plain_name(page) == [page |-> page, past |-> FALSE, shown |-> TRUE]

\* ------------------------------------------------------------------------
\* do_scrub
\* ------------------------------------------------------------------------

\* mutant of ScrubAtEdge: the upper bound is off by one
ScrubAtEdge_OffByOne(target_index, max_index) ==
    target_index < 0 \/ target_index > max_index + 1

\* the bounds check of do_scrub
ScrubAtEdge(target_index, max_index) == target_index < 0 \/ target_index > max_index

\* mutant of SnapPosition: the cursor is left where the last update put it
SnapPosition_NoSnap == s_scrub_current_index_fixed

\* the position do_scrub snaps the cursor to when it supersedes an animation
SnapPosition == s_scrub_to_index_fixed

\* the scheduler after do_scrub has unscheduled the previous animation
ScrubUnscheduled ==
    IF s_scrub_animation # NULL
    THEN animation_unschedule(scrub_anims, s_scrub_animation)
    ELSE scrub_anims

\* mutant of do_scrub: an in-bounds move leaves the index to the teardown
do_scrub_Deferred(direction) ==
    LET target_index == s_scrub_index + direction
        max_index == CurrentHistoryCount - 1
        cur == IF s_scrub_animation # NULL THEN SnapPosition
               ELSE s_scrub_current_index_fixed
        h == FreeHandle(ScrubUnscheduled)
        bounce_amount == SCRUB_FIXED_SCALE \div 3
    IN  IF ScrubAtEdge(target_index, max_index)
        THEN [index |-> s_scrub_index,
              current |-> cur,
              from |-> cur,
              to |-> s_scrub_to_index_fixed,
              bounce_target |-> IF target_index < 0 THEN -bounce_amount
                                ELSE max_index * SCRUB_FIXED_SCALE + bounce_amount,
              bounce_return |-> IF target_index < 0 THEN 0
                                ELSE max_index * SCRUB_FIXED_SCALE,
              handle |-> h,
              anims |-> animation_schedule(ScrubUnscheduled, h, "bounce")]
        ELSE [index |-> s_scrub_index,
              current |-> cur,
              from |-> cur,
              to |-> target_index * SCRUB_FIXED_SCALE,
              bounce_target |-> s_bounce_target_fixed,
              bounce_return |-> s_bounce_return_fixed,
              handle |-> h,
              anims |-> animation_schedule(ScrubUnscheduled, h, "scrub")]

\* do_scrub: the values it leaves in the scrub state
do_scrub(direction) ==
    LET target_index == s_scrub_index + direction
        max_index == CurrentHistoryCount - 1
        cur == IF s_scrub_animation # NULL THEN SnapPosition
               ELSE s_scrub_current_index_fixed
        h == FreeHandle(ScrubUnscheduled)
        bounce_amount == SCRUB_FIXED_SCALE \div 3
    IN  IF ScrubAtEdge(target_index, max_index)
        THEN [index |-> s_scrub_index,
              current |-> cur,
              from |-> cur,
              to |-> s_scrub_to_index_fixed,
              bounce_target |-> IF target_index < 0 THEN -bounce_amount
                                ELSE max_index * SCRUB_FIXED_SCALE + bounce_amount,
              bounce_return |-> IF target_index < 0 THEN 0
                                ELSE max_index * SCRUB_FIXED_SCALE,
              handle |-> h,
              anims |-> animation_schedule(ScrubUnscheduled, h, "bounce")]
        ELSE [index |-> ToUint8(target_index),
              current |-> cur,
              from |-> cur,
              to |-> target_index * SCRUB_FIXED_SCALE,
              bounce_target |-> s_bounce_target_fixed,
              bounce_return |-> s_bounce_return_fixed,
              handle |-> h,
              anims |-> animation_schedule(ScrubUnscheduled, h, "scrub")]

\* the state change of a call of do_scrub
DoScrub(direction) ==
    /\ HasFree(ScrubUnscheduled)
    /\ LET r == do_scrub(direction)
       IN  /\ s_scrub_index' = r.index
           /\ s_scrub_current_index_fixed' = r.current
           /\ s_scrub_from_index_fixed' = r.from
           /\ s_scrub_to_index_fixed' = r.to
           /\ s_bounce_target_fixed' = r.bounce_target
           /\ s_bounce_return_fixed' = r.bounce_return
           /\ s_scrub_animation' = r.handle
           /\ scrub_anims' = r.anims
    /\ UNCHANGED <<s_scrub_mode, wiggle_vars>>

\* ------------------------------------------------------------------------
\* Paging (do_scroll)
\* ------------------------------------------------------------------------

\* mutant of ScrollAtEdge: the lower bound is off by one
ScrollAtEdge_OffByOne(next_page, count) == next_page < -1 \/ next_page >= count

\* the bounds check of do_scroll
ScrollAtEdge(next_page, count) == next_page < 0 \/ next_page >= count

\* the scheduler after do_scroll has unscheduled the previous animation
ScrollUnscheduled ==
    IF s_current_animation # NULL
    THEN animation_unschedule(scroll_anims, s_current_animation)
    ELSE scroll_anims

\* create_value_interpolation_animation: the state the value animation runs on
create_value_interpolation_animation(old_value, new_value) ==
    LET old == parse_fixed_point(old_value)
        new == parse_fixed_point(new_value)
    IN  /\ s_value_from' = old.value
        /\ s_value_to' = new.value
        /\ s_value_decimals' = IF old.decimals > new.decimals
                               THEN old.decimals ELSE new.decimals

\* do_scroll with delta = -1 (ScrollDirectionUp) or +1 (ScrollDirectionDown)
do_scroll(delta) ==
    LET run == selected_run_index
        next_page == current_metric_page + delta
        h == FreeHandle(ScrollUnscheduled)
    IN  /\ HasFree(ScrollUnscheduled)
        /\ IF ScrollAtEdge(next_page, num_metrics(run))
           THEN /\ scroll_anims' = animation_schedule(ScrollUnscheduled, h, "layer_bounce")
                /\ UNCHANGED <<current_metric_page, s_value_from, s_value_to,
                               s_value_decimals>>
           ELSE /\ current_metric_page' = ToUint8(next_page)
                /\ create_value_interpolation_animation(
                       metric_value(run, current_metric_page),
                       metric_value(run, next_page))
                    /\ scroll_anims' = animation_schedule(ScrollUnscheduled, h, "slide")
        /\ s_current_animation' = h
        /\ UNCHANGED <<window, selected_run_index, display_vars>>

\* s_value_from + (int32_t)((int64_t)progress * (s_value_to - s_value_from)
\*                           / ANIMATION_NORMALIZED_MAX): the difference and
\* the sum are int32_t, the product is int64_t
AnimatedValue(from, to, progress) ==
    Add32(from, ScaleByProgress(progress, Sub32(to, from)))

\* the update of a slide's value animation: the text it shows
value_animation_update(progress) ==
    format_fixed_point(AnimatedValue(s_value_from, s_value_to, progress), s_value_decimals)

\* the tick at which the outbound half of a slide stops
OutboundTicks == (NumTicks + 1) \div 2

\* a paging animation receives its next update; the outbound half of a slide
\* ends with on_name_outbound_stopped
ScrollTick(h) ==
    /\ scroll_anims[h] # NoAnim
    /\ scroll_anims[h].tick < NumTicks
    /\ LET k == scroll_anims[h].tick + 1
           slide == scroll_anims[h].kind = "slide"
       IN  /\ scroll_anims' = [scroll_anims EXCEPT ![h].tick = k]
           /\ value_text' = IF slide
                            THEN ShownText(value_animation_update(Progress(k)), value_text)
                            ELSE value_text
           /\ IF slide /\ k = OutboundTicks
              THEN /\ name_text' = ShownText(plain_name(current_metric_page), name_text)
                   /\ s_graph_display_page' = current_metric_page
              ELSE UNCHANGED <<name_text, s_graph_display_page>>
    /\ UNCHANGED <<app_vars, s_current_animation, s_value_from, s_value_to,
                   s_value_decimals, cursor_vars, wiggle_vars, scrub_vars, timer_vars,
                   button_vars>>
    /\ UNCHANGED inputs

\* a paging animation completes: value_animation_teardown for a slide
ScrollTeardown(h) ==
    /\ scroll_anims[h] # NoAnim
    /\ scroll_anims[h].tick = NumTicks
    /\ scroll_anims' = [scroll_anims EXCEPT ![h] = NoAnim]
    /\ s_current_animation' = IF s_current_animation = h THEN Stale
                              ELSE s_current_animation
    /\ value_text' = IF scroll_anims[h].kind = "slide"
                     THEN ShownText(metric_value(selected_run_index, current_metric_page),
                                    value_text)
                     ELSE value_text
    /\ UNCHANGED <<app_vars, name_text, s_graph_display_page, s_value_from, s_value_to,
                   s_value_decimals, cursor_vars, wiggle_vars, scrub_vars, timer_vars,
                   button_vars>>
    /\ UNCHANGED inputs

\* ------------------------------------------------------------------------
\* Entering and leaving scrub mode
\* ------------------------------------------------------------------------

\* mutant of EntryIndex: the cursor starts one sample before the last
EntryIndex_OffByOne == ToUint8(CurrentHistoryCount - 2)

\* the sample enter_scrub_mode puts the cursor on: the last (current) value
EntryIndex == ToUint8(CurrentHistoryCount - 1)

\* enter_scrub_mode
enter_scrub_mode ==
    LET index == EntryIndex
        position == index * SCRUB_FIXED_SCALE
        h == FreeHandle(scrub_anims)
    IN  /\ HasFree(scrub_anims)
        /\ s_scrub_mode' = TRUE
        /\ s_scrub_index' = index
        /\ s_scrub_current_index_fixed' = position
        /\ value_text' = update_scrub_value_display_interpolated(position)
        /\ name_text' = update_scrub_name_display(TRUE, index)
        /\ s_wiggle_start_fixed' = position
        /\ s_wiggle_amount' = SCRUB_FIXED_SCALE
        /\ scrub_anims' = animation_schedule(scrub_anims, h, "wiggle")
        /\ s_scrub_animation' = h
        /\ UNCHANGED <<app_vars, s_graph_display_page, scroll_vars,
                       s_scrub_from_index_fixed, s_scrub_to_index_fixed,
                       s_bounce_target_fixed, s_bounce_return_fixed, timer_vars>>

\* mutant of exit_scrub_mode: scrub mode is left at the moment of the input
exit_scrub_mode_Immediate ==
    LET h == FreeHandle(ScrubUnscheduled)
    IN  /\ HasFree(ScrubUnscheduled)
        /\ s_scrub_repeat_timer' = FALSE
        /\ s_scrub_repeat_direction' = 0
        /\ s_scrub_from_index_fixed' = s_scrub_current_index_fixed
        /\ s_scrub_to_index_fixed' = (CurrentHistoryCount - 1) * SCRUB_FIXED_SCALE
        /\ scrub_anims' = animation_schedule(ScrubUnscheduled, h, "exit")
        /\ s_scrub_animation' = h
        /\ s_scrub_mode' = FALSE
        /\ UNCHANGED <<app_vars, display_vars, scroll_vars, s_scrub_index,
                       s_scrub_current_index_fixed, s_bounce_target_fixed,
                       s_bounce_return_fixed, wiggle_vars>>

\* exit_scrub_mode
exit_scrub_mode ==
    LET h == FreeHandle(ScrubUnscheduled)
    IN  /\ HasFree(ScrubUnscheduled)
        /\ s_scrub_repeat_timer' = FALSE
        /\ s_scrub_repeat_direction' = 0
        /\ s_scrub_from_index_fixed' = s_scrub_current_index_fixed
        /\ s_scrub_to_index_fixed' = (CurrentHistoryCount - 1) * SCRUB_FIXED_SCALE
        /\ scrub_anims' = animation_schedule(ScrubUnscheduled, h, "exit")
        /\ s_scrub_animation' = h
        /\ UNCHANGED <<app_vars, display_vars, scroll_vars, s_scrub_mode, s_scrub_index,
                       s_scrub_current_index_fixed, s_bounce_target_fixed,
                       s_bounce_return_fixed, wiggle_vars>>

\* ------------------------------------------------------------------------
\* Scrub-family animations: updates and teardowns
\* ------------------------------------------------------------------------

\* a scheduled scrub-family animation receives its next update
ScrubTick(h) ==
    /\ scrub_anims[h] # NoAnim
    /\ scrub_anims[h].tick < NumTicks
    /\ LET k == scrub_anims[h].tick + 1
           kind == scrub_anims[h].kind
           position == IF kind = "bounce" THEN bounce_animation_update(Progress(k))
                       ELSE IF kind = "wiggle" THEN wiggle_animation_update(Progress(k))
                       ELSE scrub_animation_update(Progress(k))
       IN  /\ scrub_anims' = [scrub_anims EXCEPT ![h].tick = k]
           /\ s_scrub_current_index_fixed' = position
           /\ value_text' = IF kind = "wiggle" THEN value_text
                            ELSE ShownText(update_scrub_value_display_interpolated(position),
                                           value_text)
    /\ UNCHANGED <<app_vars, s_graph_display_page, name_text, scroll_vars,
                   s_scrub_from_index_fixed, s_scrub_to_index_fixed,
                   s_bounce_target_fixed, s_bounce_return_fixed, wiggle_vars,
                   s_scrub_mode, s_scrub_index, s_scrub_animation, timer_vars,
                   button_vars>>
    /\ UNCHANGED inputs

\* scrub_animation_teardown: [position, index] it leaves
scrub_animation_teardown ==
    LET max_fixed == (CurrentHistoryCount - 1) * SCRUB_FIXED_SCALE
        low == IF s_scrub_to_index_fixed < 0 THEN 0 ELSE s_scrub_to_index_fixed
        position == IF low > max_fixed THEN max_fixed ELSE low
    IN  [position |-> position, index |-> ToUint8(CDiv(position, SCRUB_FIXED_SCALE))]

\* a scrub animation completes
ScrubTeardown(h) ==
    /\ scrub_anims[h] # NoAnim
    /\ scrub_anims[h].kind = "scrub"
    /\ scrub_anims[h].tick = NumTicks
    /\ LET r == scrub_animation_teardown
       IN  /\ s_scrub_current_index_fixed' = r.position
           /\ s_scrub_index' = r.index
           /\ value_text' = ShownText(update_scrub_value_display_interpolated(r.position),
                                      value_text)
           /\ name_text' = ShownText(update_scrub_name_display(s_scrub_mode, r.index),
                                     name_text)
    /\ scrub_anims' = [scrub_anims EXCEPT ![h] = NoAnim]
    /\ s_scrub_animation' = NULL
    /\ UNCHANGED <<app_vars, s_graph_display_page, scroll_vars, s_scrub_from_index_fixed,
                   s_scrub_to_index_fixed, s_bounce_target_fixed, s_bounce_return_fixed,
                   wiggle_vars, s_scrub_mode, timer_vars, button_vars>>
    /\ UNCHANGED inputs

\* a bounce animation completes (bounce_animation_teardown)
BounceTeardown(h) ==
    /\ scrub_anims[h] # NoAnim
    /\ scrub_anims[h].kind = "bounce"
    /\ scrub_anims[h].tick = NumTicks
    /\ s_scrub_current_index_fixed' = s_bounce_return_fixed
    /\ value_text' = ShownText(update_scrub_value_display_interpolated(s_bounce_return_fixed),
                               value_text)
    /\ scrub_anims' = [scrub_anims EXCEPT ![h] = NoAnim]
    /\ s_scrub_animation' = NULL
    /\ UNCHANGED <<app_vars, s_graph_display_page, name_text, scroll_vars,
                   s_scrub_from_index_fixed, s_scrub_to_index_fixed,
                   s_bounce_target_fixed, s_bounce_return_fixed, wiggle_vars,
                   s_scrub_mode, s_scrub_index, timer_vars, button_vars>>
    /\ UNCHANGED inputs

\* a wiggle animation completes (wiggle_animation_teardown)
WiggleTeardown(h) ==
    /\ scrub_anims[h] # NoAnim
    /\ scrub_anims[h].kind = "wiggle"
    /\ scrub_anims[h].tick = NumTicks
    /\ s_scrub_current_index_fixed' = s_wiggle_start_fixed
    /\ value_text' = ShownText(update_scrub_value_display_interpolated(s_wiggle_start_fixed),
                               value_text)
    /\ scrub_anims' = [scrub_anims EXCEPT ![h] = NoAnim]
    /\ s_scrub_animation' = NULL
    /\ UNCHANGED <<app_vars, s_graph_display_page, name_text, scroll_vars,
                   s_scrub_from_index_fixed, s_scrub_to_index_fixed,
                   s_bounce_target_fixed, s_bounce_return_fixed, wiggle_vars,
                   s_scrub_mode, s_scrub_index, timer_vars, button_vars>>
    /\ UNCHANGED inputs

\* an exit animation completes (exit_scrub_animation_teardown)
ExitTeardown(h) ==
    /\ scrub_anims[h] # NoAnim
    /\ scrub_anims[h].kind = "exit"
    /\ scrub_anims[h].tick = NumTicks
    /\ s_scrub_mode' = FALSE
    /\ s_scrub_animation' = NULL
    /\ value_text' = ShownText(metric_value(selected_run_index, current_metric_page),
                               value_text)
    /\ name_text' = ShownText(plain_name(current_metric_page), name_text)
    /\ scrub_anims' = [scrub_anims EXCEPT ![h] = NoAnim]
    /\ UNCHANGED <<app_vars, s_graph_display_page, scroll_vars, cursor_vars, wiggle_vars,
                   s_scrub_index, timer_vars, button_vars>>
    /\ UNCHANGED inputs

\* ------------------------------------------------------------------------
\* Click handlers and the repeat timer
\* ------------------------------------------------------------------------

\* scrub_repeat_timer_callback
TimerFire ==
    /\ s_scrub_repeat_timer
    /\ IF s_scrub_mode /\ s_scrub_repeat_direction # 0
       THEN /\ DoScrub(s_scrub_repeat_direction)
            /\ UNCHANGED timer_vars
       ELSE /\ s_scrub_repeat_timer' = FALSE
            /\ UNCHANGED <<s_scrub_repeat_direction, cursor_vars, wiggle_vars, scrub_vars>>
    /\ UNCHANGED <<app_vars, display_vars, scroll_vars, button_vars>>
    /\ UNCHANGED inputs

\* mutant of detail_up_down_handler: the press pages whatever the mode
detail_up_down_handler_PagesAlways(direction) ==
    /\ do_scroll(IF direction = 1 THEN -1 ELSE 1)
    /\ UNCHANGED <<cursor_vars, wiggle_vars, scrub_vars, timer_vars>>

\* detail_up_down_handler for BUTTON_ID_UP (direction 1) or BUTTON_ID_DOWN (-1)
detail_up_down_handler(direction) ==
    IF s_scrub_mode
    THEN /\ DoScrub(direction)
         /\ s_scrub_repeat_direction' = direction
         /\ s_scrub_repeat_timer' = TRUE
         /\ UNCHANGED <<app_vars, display_vars, scroll_vars>>
    ELSE /\ do_scroll(IF direction = 1 THEN -1 ELSE 1)
         /\ UNCHANGED <<cursor_vars, wiggle_vars, scrub_vars, timer_vars>>

\* the Up button goes down
PressUp ==
    /\ window = "detail"
    /\ ~up_held
    /\ detail_up_down_handler(1)
    /\ up_held' = TRUE
    /\ UNCHANGED down_held
    /\ TakeInput

\* the Down button goes down
PressDown ==
    /\ window = "detail"
    /\ ~down_held
    /\ detail_up_down_handler(-1)
    /\ down_held' = TRUE
    /\ UNCHANGED up_held
    /\ TakeInput

\* stop_scrub_repeat
stop_scrub_repeat ==
    /\ s_scrub_repeat_timer' = FALSE
    /\ s_scrub_repeat_direction' = 0

\* the Up button goes up (detail_up_down_release_handler)
ReleaseUp ==
    /\ window = "detail"
    /\ up_held
    /\ stop_scrub_repeat
    /\ up_held' = FALSE
    /\ UNCHANGED <<app_vars, display_vars, scroll_vars, cursor_vars, wiggle_vars,
                   scrub_vars, down_held>>
    /\ UNCHANGED inputs

\* the Down button goes up (detail_up_down_release_handler)
ReleaseDown ==
    /\ window = "detail"
    /\ down_held
    /\ stop_scrub_repeat
    /\ down_held' = FALSE
    /\ UNCHANGED <<app_vars, display_vars, scroll_vars, cursor_vars, wiggle_vars,
                   scrub_vars, up_held>>
    /\ UNCHANGED inputs

\* detail_select_click_handler while browsing
SelectEnter ==
    /\ window = "detail"
    /\ ~s_scrub_mode
    /\ enter_scrub_mode
    /\ UNCHANGED button_vars
    /\ TakeInput

\* detail_select_click_handler while scrubbing
SelectExit ==
    /\ window = "detail"
    /\ s_scrub_mode
    /\ exit_scrub_mode
    /\ UNCHANGED button_vars
    /\ TakeInput

\* ------------------------------------------------------------------------
\* Window life cycle
\* ------------------------------------------------------------------------

\* menu_select_callback, detail_window_push, detail_window_load
MenuSelect(row) ==
    /\ window = "menu"
    /\ window' = "detail"
    /\ selected_run_index' = row
    /\ current_metric_page' = 0
    /\ s_current_animation' = NULL
    /\ s_scrub_mode' = FALSE
    /\ value_text' = metric_value(row, 0)
    /\ name_text' = plain_name(0)
    /\ s_graph_display_page' = 0
    /\ UNCHANGED <<scroll_anims, s_value_from, s_value_to, s_value_decimals, cursor_vars,
                   wiggle_vars, s_scrub_index, s_scrub_animation, scrub_anims,
                   timer_vars, button_vars>>
    /\ TakeInput

\* the Back button pops the detail window: detail_window_unload. The layers
\* are destroyed; a button still down is released in the menu window.
Back ==
    /\ window = "detail"
    /\ window' = "menu"
    /\ s_scrub_mode' = FALSE
    /\ scroll_anims' = ScrollUnscheduled
    /\ s_current_animation' = NULL
    /\ value_text' = <<>>
    /\ name_text' = NoText
    /\ up_held' = FALSE
    /\ down_held' = FALSE
    /\ UNCHANGED <<selected_run_index, current_metric_page, s_graph_display_page,
                   s_value_from, s_value_to, s_value_decimals, cursor_vars, wiggle_vars,
                   s_scrub_index, s_scrub_animation, scrub_anims, timer_vars>>
    /\ TakeInput

\* ------------------------------------------------------------------------
\* Specification
\* ------------------------------------------------------------------------

Next ==
    \/ (\E row \in 0..(num_runs - 1) : MenuSelect(row)) /\ UNCHANGED aux_vars
    \/ Back /\ UNCHANGED aux_vars
    \/ PressUp /\ UNCHANGED aux_vars
    \/ PressDown /\ UNCHANGED aux_vars
    \/ ReleaseUp /\ UNCHANGED aux_vars
    \/ ReleaseDown /\ UNCHANGED aux_vars
    \/ SelectEnter /\ UNCHANGED aux_vars
    \/ SelectExit /\ UNCHANGED aux_vars
    \/ TimerFire /\ UNCHANGED aux_vars
    \/ (\E h \in Handles : ScrubTick(h)) /\ UNCHANGED aux_vars
    \/ (\E h \in Handles : ScrubTeardown(h)) /\ UNCHANGED aux_vars
    \/ (\E h \in Handles : BounceTeardown(h)) /\ UNCHANGED aux_vars
    \/ (\E h \in Handles : WiggleTeardown(h)) /\ UNCHANGED aux_vars
    \/ (\E h \in Handles : ExitTeardown(h)) /\ UNCHANGED aux_vars
    \/ (\E h \in Handles : ScrollTick(h)) /\ UNCHANGED aux_vars
    \/ (\E h \in Handles : ScrollTeardown(h)) /\ UNCHANGED aux_vars

Spec == Init /\ [][Next]_<<vars, aux_vars>>

\* ------------------------------------------------------------------------
\* The fixed-point codec called on its own
\* ------------------------------------------------------------------------

\* longest integer part of the strings handed to the codec
MaxIntDigits == 6

\* longest fractional part of the strings handed to the codec
MaxFracDigits == 5

\* the digits the strings are made of
CodecDigits == {"0", "7"}

\* the digit strings of length lo..hi
DigitStrings(lo, hi) == UNION {[1..n -> CodecDigits] : n \in lo..hi}

\* decimal strings: optional '-', digits, optionally '.' and more digits
CodecInputs ==
    {sign \o int \o frac :
        sign \in {<<>>, <<"-">>},
        int \in DigitStrings(1, MaxIntDigits),
        frac \in {<<>>} \cup {<<".">> \o f : f \in DigitStrings(1, MaxFracDigits)}}

CodecInit ==
    /\ AppInit
    /\ InterpIdle
    /\ ValueAnimIdle
    /\ NetIdle
    /\ codec_pc = "call"
    /\ in_str \in CodecInputs
    /\ out_value = 0
    /\ out_decimals = 0
    /\ out_buffer = <<>>
    /\ GraphIdle
    /\ PackIdle
    /\ HistoryIdle
    /\ SendIdle

\* value = parse_fixed_point(str, &decimals)
ParseCall ==
    /\ codec_pc = "call"
    /\ LET parsed == parse_fixed_point(in_str)
       IN  /\ out_value' = parsed.value
           /\ out_decimals' = parsed.decimals
    /\ codec_pc' = "parsed"
    /\ UNCHANGED <<vars, interp_vars, value_anim_vars, net_vars, graph_vars, pack_vars, history_vars, send_vars, in_str, out_buffer>>

\* format_fixed_point(value, decimals, buffer, sizeof(buffer))
FormatCall ==
    /\ codec_pc = "parsed"
    /\ out_buffer' = format_fixed_point(out_value, out_decimals)
    /\ codec_pc' = "formatted"
    /\ UNCHANGED <<vars, interp_vars, value_anim_vars, net_vars, graph_vars, pack_vars, history_vars, send_vars, in_str, out_value, out_decimals>>

CodecNext == ParseCall \/ FormatCall

CodecSpec == CodecInit /\ [][CodecNext]_<<vars, aux_vars>>

\* ------------------------------------------------------------------------
\* Vocabulary of the properties
\* ------------------------------------------------------------------------

\* the last valid scrub position of the current metric
MaxFixed == (CurrentHistoryCount - 1) * SCRUB_FIXED_SCALE

\* the kind of the animation s_scrub_animation refers to ("none" for NULL)
CurrentScrubKind ==
    IF s_scrub_animation \in Handles THEN scrub_anims[s_scrub_animation].kind ELSE "none"

\* the kind of the animation s_current_animation refers to
CurrentScrollKind ==
    IF s_current_animation \in Handles THEN scroll_anims[s_current_animation].kind
    ELSE "none"

\* a scrub-family animation of the given kind is scheduled
InFlight(kind) == \E h \in Handles : scrub_anims[h].kind = kind

\* a step that calls do_scrub: a press in scrub mode or a firing of the repeat
\* timer that moves
ScrubMoveStep ==
    \/ (PressUp \/ PressDown) /\ s_scrub_mode
    \/ TimerFire /\ s_scrub_mode /\ s_scrub_repeat_direction # 0

\* a step that calls do_scrub with the given direction
ScrubMove(direction) ==
    \/ direction = 1 /\ PressUp /\ s_scrub_mode
    \/ direction = -1 /\ PressDown /\ s_scrub_mode
    \/ TimerFire /\ s_scrub_mode /\ s_scrub_repeat_direction = direction

\* the largest history count of the metrics of the data set
LargestHistoryCount ==
    CHOOSE n \in 0..20 :
        /\ \E r \in 0..(num_runs - 1) : \E p \in 0..(num_metrics(r) - 1) :
              history_count(r, p) = n
        /\ \A r \in 0..(num_runs - 1) : \A p \in 0..(num_metrics(r) - 1) :
              history_count(r, p) <= n

\* ------------------------------------------------------------------------
\* C1
\* ------------------------------------------------------------------------

\* C1: in scrub mode the discrete index stays within [0, N-1]; a move down at
\* index 0 or up at index N-1 (by a press or by the repeat timer) starts a
\* bounce animation and leaves the index unchanged.
C1_ScrubIndexBounded ==
    /\ [](s_scrub_mode => (0 <= s_scrub_index /\ s_scrub_index <= CurrentHistoryCount - 1))
    /\ [][\A d \in {-1, 1} :
            (ScrubMove(d) /\ s_scrub_index = (IF d = -1 THEN 0 ELSE CurrentHistoryCount - 1))
            => /\ s_scrub_index' = s_scrub_index
               /\ CurrentScrubKind' = "bounce"
               /\ scrub_anims'[s_scrub_animation'].tick = 0]_vars

\* C1 witness: a Down at index 0 has started a bounce that returns to 0
C1_Witness ==
    /\ s_scrub_mode
    /\ s_scrub_index = 0
    /\ CurrentScrubKind = "bounce"
    /\ s_bounce_return_fixed = 0
    /\ down_held

\* ------------------------------------------------------------------------
\* C2
\* ------------------------------------------------------------------------

IntendedEnd(kind) ==
    IF kind = "bounce" THEN s_bounce_return_fixed
    ELSE IF kind = "wiggle" THEN s_wiggle_start_fixed
    ELSE IF kind = "exit" THEN MaxFixed
    ELSE s_scrub_to_index_fixed

\* C3 as stated: when a scrub-family animation is superseded, the new
\* animation starts from the superseded animation's own intended end value.
C3_SnapToIntendedEnd ==
    [][((ScrubMoveStep \/ SelectExit) /\ s_scrub_animation # NULL)
        => s_scrub_from_index_fixed' = IntendedEnd(CurrentScrubKind)]_vars

\* ------------------------------------------------------------------------
\* C4
\* ------------------------------------------------------------------------

\* the overshoot of a boundary bounce
BounceOvershoot == SCRUB_FIXED_SCALE \div 3

\* the overshoot of the wiggle's return swing
WiggleOvershoot == SCRUB_FIXED_SCALE \div 2

C5_ExitRejectsMoves ==
    [][((PressUp \/ PressDown) /\ CurrentScrubKind = "exit")
        => /\ s_scrub_index' = s_scrub_index
           /\ scrub_anims' = scrub_anims]_vars

\* ------------------------------------------------------------------------
\* C6
\* ------------------------------------------------------------------------

\* C6 as stated: the Select press leaves s_scrub_mode true, and s_scrub_mode
\* becomes false only in the teardown of the exit animation.
C6_ModeClearedOnlyInTeardown ==
    /\ [][SelectExit => s_scrub_mode']_vars
    /\ [][(s_scrub_mode /\ ~s_scrub_mode') => \E h \in Handles : ExitTeardown(h)]_vars

\* C6 amended: the Select press leaves s_scrub_mode true, and s_scrub_mode
\* becomes false only in the teardown of the exit animation or when the detail
\* window is unloaded.
C6_ModeClearedInTeardownOrUnload ==
    /\ [][SelectExit => (s_scrub_mode' /\ CurrentScrubKind' = "exit")]_vars
    /\ [][(s_scrub_mode /\ ~s_scrub_mode')
          => ((\E h \in Handles : ExitTeardown(h)) \/ Back)]_vars

\* C6 witness: the exit animation has received all its updates and scrub mode
\* is still active
C6_Witness ==
    /\ s_scrub_mode
    /\ window = "detail"
    /\ CurrentScrubKind = "exit"
    /\ scrub_anims[s_scrub_animation].tick = NumTicks

\* ------------------------------------------------------------------------
\* C7
\* ------------------------------------------------------------------------

\* C7 as stated: at most one paging animation and at most one scrub-family
\* animation is scheduled.
C7_OneAnimationPerFamily ==
    /\ Cardinality(Scheduled(scroll_anims)) <= 1
    /\ Cardinality(Scheduled(scrub_anims)) <= 1

\* ------------------------------------------------------------------------
\* C8
\* ------------------------------------------------------------------------

\* C8: current_metric_page stays within [0, num_metrics-1]; while browsing, a
\* Down on the last page or an Up on the first page starts the layer bounce
\* and changes neither the page nor the displayed name, value and graph page.
C8_PageBounded ==
    /\ [](0 <= current_metric_page
          /\ current_metric_page <= num_metrics(selected_run_index) - 1)
    /\ [][(/\ ~s_scrub_mode
           /\ \/ PressDown /\ current_metric_page = num_metrics(selected_run_index) - 1
              \/ PressUp /\ current_metric_page = 0)
          => /\ CurrentScrollKind' = "layer_bounce"
             /\ scroll_anims'[s_current_animation'].tick = 0
             /\ current_metric_page' = current_metric_page
             /\ display_vars' = display_vars]_vars

\* C8 witness: Down was pressed on the last page and the layer bounce runs
C8_Witness ==
    /\ window = "detail"
    /\ ~s_scrub_mode
    /\ down_held
    /\ current_metric_page = num_metrics(selected_run_index) - 1
    /\ CurrentScrollKind = "layer_bounce"
    /\ s_graph_display_page = current_metric_page

\* ------------------------------------------------------------------------
\* C9
\* ------------------------------------------------------------------------

\* the value text of a sample shown without interpolation
SampleText(run, page, i) ==
    format_fixed_point(history(run, page, i),
                       parse_fixed_point(metric_value(run, page)).decimals)

\* C9: Select while browsing activates scrub mode with the cursor on the most
\* recent sample, schedules the wiggle and shows that sample's value; from
\* that position an Up press bounces and a Down press moves one sample older.
C9_EnterOnLastSample ==
    /\ [][SelectEnter
          => /\ s_scrub_mode'
             /\ s_scrub_index' = CurrentHistoryCount - 1
             /\ s_scrub_current_index_fixed' = (CurrentHistoryCount - 1) * SCRUB_FIXED_SCALE
             /\ CurrentScrubKind' = "wiggle"
             /\ scrub_anims'[s_scrub_animation'].tick = 0
             /\ value_text' = SampleText(selected_run_index, current_metric_page,
                                         CurrentHistoryCount - 1)]_vars
    /\ [][(PressUp /\ s_scrub_mode /\ s_scrub_index = CurrentHistoryCount - 1)
          => /\ CurrentScrubKind' = "bounce"
             /\ s_scrub_index' = s_scrub_index]_vars
    /\ [][(PressDown /\ s_scrub_mode /\ s_scrub_index = CurrentHistoryCount - 1)
          => /\ CurrentScrubKind' = "scrub"
             /\ s_scrub_index' = CurrentHistoryCount - 2
             /\ s_scrub_to_index_fixed' = (CurrentHistoryCount - 2) * SCRUB_FIXED_SCALE]_vars

\* C9 witness: scrub mode was just entered: the wiggle has not moved yet and
\* the cursor is on the last sample
C9_Witness ==
    /\ s_scrub_mode
    /\ CurrentScrubKind = "wiggle"
    /\ scrub_anims[s_scrub_animation].tick = 0
    /\ s_scrub_index = CurrentHistoryCount - 1
    /\ s_scrub_current_index_fixed = MaxFixed
    /\ value_text = metric_value(selected_run_index, current_metric_page)

\* ------------------------------------------------------------------------
\* C10
\* ------------------------------------------------------------------------

\* C10 as stated: every release and every exit from scrub mode (Select, or
\* closing the detail window) leaves no repeat timer pending, and the repeat
\* timer moves the cursor only while a directional button is down.
C10_TimerCancelledOnExit ==
    /\ [][(ReleaseUp \/ ReleaseDown \/ SelectExit \/ Back) => ~s_scrub_repeat_timer']_vars
    /\ [][(TimerFire /\ s_scrub_mode /\ s_scrub_repeat_direction # 0)
          => (up_held \/ down_held)]_vars

\* ------------------------------------------------------------------------
\* The graph layer's update procedure called on its own
\* ------------------------------------------------------------------------

\* longest history handed to the update procedure
MaxSamples == 3

\* the sample values the histories are made of
SampleValues == {-1500000000, -50000, 0, 1, 40000000, 1500000000}

\* the sizes of the graph layer that detail_window_load computes on the
\* 144x168, 180x180 (round) and 200x228 displays
GraphSizes == {[w |-> 124, h |-> 58], [w |-> 100, h |-> 45], [w |-> 180, h |-> 118]}

\* cursor positions the procedure is called with: on, between and past the
\* samples (at most SCRUB_FIXED_SCALE / 3 below the first sample)
CursorValues == {-333, -200, -1, 0, 1, 500, 999, 1000, 1001, 1500, 2000, 2333, 2500}

GraphInit ==
    /\ AppInit
    /\ InterpIdle
    /\ ValueAnimIdle
    /\ NetIdle
    /\ CodecIdle
    /\ PackIdle
    /\ HistoryIdle
    /\ SendIdle
    /\ graph_pc = "call"
    /\ samples \in UNION {[1..n -> SampleValues] : n \in 0..MaxSamples}
    /\ bounds \in GraphSizes
    /\ min_val = 0
    /\ max_val = 0
    /\ range = 0
    /\ points = <<>>
    /\ graph_scrub_mode \in BOOLEAN
    /\ graph_index_fixed \in IF graph_scrub_mode THEN CursorValues ELSE {0}
    /\ graph_idx_int = -1
    /\ indicator_point = [x |-> 0, y |-> 0]

RECURSIVE MinLoop(_, _, _)
\* the loop over history[i .. count - 1] that keeps the smallest value
MinLoop(h, i, m) ==
    IF i > Len(h) THEN m ELSE MinLoop(h, i + 1, IF h[i] < m THEN h[i] ELSE m)

RECURSIVE MaxLoop(_, _, _)
\* the loop over history[i .. count - 1] that keeps the largest value
MaxLoop(h, i, m) ==
    IF i > Len(h) THEN m ELSE MaxLoop(h, i + 1, IF h[i] > m THEN h[i] ELSE m)

\* range = max_val - min_val; if (range == 0) range = 1
RangeOf(max, min) == IF Sub32(max, min) = 0 THEN 1 ELSE Sub32(max, min)

\* y_offset + graph_height - ((history[i] - min_val) * graph_height / range)
PointY(v, min, rng, graph_height) ==
    Wrap16(Sub32(2 + graph_height, CDiv(Mul32(Sub32(v, min), graph_height), rng)))

\* x_offset + (i * graph_width) / (history_count - 1), for the 0-based i
PointX(i, count, graph_width) == Wrap16(2 + CDiv(i * graph_width, count - 1))

\* mutant of IndicatorIndex: past the last sample the fraction is taken
\* relative to the last sample, not to the one before
IndicatorIndex_NoStep(index_fixed, count) ==
    LET first == CDiv(index_fixed, SCRUB_FIXED_SCALE)
        low == IF first < 0
               THEN [idx |-> 0, frac |-> index_fixed]
               ELSE [idx |-> first, frac |-> CMod(index_fixed, SCRUB_FIXED_SCALE)]
    IN  IF low.idx >= count - 1
        THEN [idx |-> count - 2,
              frac |-> index_fixed - (count - 1) * SCRUB_FIXED_SCALE]
        ELSE low

\* idx_int and frac after the two clamps of the indicator calculation
IndicatorIndex(index_fixed, count) ==
    LET first == CDiv(index_fixed, SCRUB_FIXED_SCALE)
        low == IF first < 0
               THEN [idx |-> 0, frac |-> index_fixed]
               ELSE [idx |-> first, frac |-> CMod(index_fixed, SCRUB_FIXED_SCALE)]
    IN  IF low.idx >= count - 1
        THEN [idx |-> count - 2,
              frac |-> SCRUB_FIXED_SCALE + (index_fixed - (count - 1) * SCRUB_FIXED_SCALE)]
        ELSE low

\* x1 + (int16_t)((x2 - x1) * frac / SCRUB_FIXED_SCALE), stored in an int16_t
IndicatorCoordinate(c1, c2, frac) ==
    Wrap16(c1 + Wrap16(CDiv((c2 - c1) * frac, SCRUB_FIXED_SCALE)))

\* the indicator position between pts[idx_int] and pts[idx_int + 1] (0-based)
IndicatorPoint(pts, at) ==
    [x |-> IndicatorCoordinate(pts[at.idx + 1].x, pts[at.idx + 2].x, at.frac),
     y |-> IndicatorCoordinate(pts[at.idx + 1].y, pts[at.idx + 2].y, at.frac)]

\* graph_layer_update_proc: points[] and the indicator position
graph_layer_update_proc ==
    /\ graph_pc = "call"
    /\ IF Len(samples) < 2
       THEN /\ graph_pc' = "skipped"
            /\ UNCHANGED <<min_val, max_val, range, points, graph_idx_int,
                           indicator_point>>
       ELSE LET min == MinLoop(samples, 2, samples[1])
                max == MaxLoop(samples, 2, samples[1])
                rng == RangeOf(max, min)
                graph_height == Wrap16(bounds.h - 4)
                graph_width == Wrap16(bounds.w - 4)
            IN  /\ graph_pc' = "drawn"
                /\ min_val' = min
                /\ max_val' = max
                /\ range' = rng
                /\ points' = [i \in 1..Len(samples) |->
                                 [x |-> PointX(i - 1, Len(samples), graph_width),
                                  y |-> PointY(samples[i], min, rng, graph_height)]]
                /\ IF graph_scrub_mode
                   THEN LET at == IndicatorIndex(graph_index_fixed, Len(samples))
                        IN  /\ graph_idx_int' = at.idx
                            /\ indicator_point' = IndicatorPoint(points', at)
                   ELSE /\ graph_idx_int' = -1
                        /\ indicator_point' = points'[Len(samples)]
    /\ UNCHANGED <<vars, interp_vars, value_anim_vars, net_vars, codec_vars, pack_vars, history_vars, send_vars, samples, bounds,
                   graph_scrub_mode, graph_index_fixed>>

GraphNext == graph_layer_update_proc

GraphSpec == GraphInit /\ [][GraphNext]_<<vars, aux_vars>>

\* ------------------------------------------------------------------------
\* The companion's packInt64Array called on its own
\* ------------------------------------------------------------------------

\* A JavaScript number that is an integer below 2^53 in magnitude is kept
\* as its sign and the four 16-bit digits of its magnitude, lowest first;
\* a 32-bit word is kept as its two 16-bit halves, lowest first.

\* longest array handed to packInt64Array
MaxPacked == 2

\* the magnitudes 0, 1, 50000, 487200, 2^32 - 1, 2^32 and 2^53 - 1
PackMagnitudes ==
    {<<0, 0, 0, 0>>, <<1, 0, 0, 0>>, <<50000, 0, 0, 0>>, <<28448, 7, 0, 0>>,
     <<65535, 65535, 0, 0>>, <<0, 0, 1, 0>>, <<65535, 65535, 65535, 31>>}

\* the numbers handed to packInt64Array
PackValues ==
    {[neg |-> n, mag |-> m] : n \in BOOLEAN, m \in PackMagnitudes}
        \ {[neg |-> TRUE, mag |-> <<0, 0, 0, 0>>]}

PackInit ==
    /\ AppInit
    /\ InterpIdle
    /\ ValueAnimIdle
    /\ NetIdle
    /\ CodecIdle
    /\ GraphIdle
    /\ HistoryIdle
    /\ SendIdle
    /\ pack_pc = "call"
    /\ values \in UNION {[1..n -> PackValues] : n \in 0..MaxPacked}
    /\ packed = <<>>

\* ~w for a 32-bit word
Not32(w) == <<65535 - w[1], 65535 - w[2]>>

\* (w + c) >>> 0 for a 32-bit word and c in {0, 1}
Inc32(w, c) == <<(w[1] + c) % 65536, (w[2] + ((w[1] + c) \div 65536)) % 65536>>

\* low === 0 ? 0 : 1, the carry taken in the wrong case
NegateCarry_Inverted(low) == IF low = <<0, 0>> THEN 0 ELSE 1

\* low === 0 ? 1 : 0
NegateCarry(low) == IF low = <<0, 0>> THEN 1 ELSE 0

\* view.setUint32(offset, w, true): the four bytes of a word, lowest first
LittleEndian(w) == <<w[1] % 256, w[1] \div 256, w[2] % 256, w[2] \div 256>>

\* the body of the loop of packInt64Array: the 8 bytes of one value
PackOne(val) ==
    LET negative == val.neg
        low == <<val.mag[1], val.mag[2]>>
        high == <<val.mag[3], val.mag[4]>>
        low2 == IF negative THEN Inc32(Not32(low), 1) ELSE low
        high2 == IF negative THEN Inc32(Not32(high), NegateCarry(low2)) ELSE high
    IN  LittleEndian(low2) \o LittleEndian(high2)

RECURSIVE PackLoop(_, _)
\* the loop of packInt64Array over values[i ..]
PackLoop(vals, i) ==
    IF i > Len(vals) THEN <<>> ELSE PackOne(vals[i]) \o PackLoop(vals, i + 1)

\* packInt64Array(values)
packInt64Array ==
    /\ pack_pc = "call"
    /\ packed' = PackLoop(values, 1)
    /\ pack_pc' = "packed"
    /\ UNCHANGED <<vars, interp_vars, value_anim_vars, net_vars, codec_vars, graph_vars, history_vars, send_vars, values>>

PackNext == packInt64Array

PackSpec == PackInit /\ [][PackNext]_<<vars, aux_vars>>

\* ------------------------------------------------------------------------
\* set_metric_history called on its own
\* ------------------------------------------------------------------------

MAX_HISTORY_POINTS == 20

\* largest count handed to set_metric_history (a uint8_t)
MaxOffered == 22

\* the first values of the arrays handed to set_metric_history; the
\* following values go up in steps of 100
FirstValues == {-50000, 0, 9523}

HistoryInit ==
    /\ AppInit
    /\ InterpIdle
    /\ ValueAnimIdle
    /\ NetIdle
    /\ CodecIdle
    /\ GraphIdle
    /\ PackIdle
    /\ SendIdle
    /\ history_pc = "call"
    /\ \E count \in 0..MaxOffered, first \in FirstValues :
          offered = [i \in 1..count |-> first + 100 * (i - 1)]
    /\ metric_history = <<>>
    /\ metric_history_count = 0
    /\ past_end = <<>>

\* set_metric_history(metric, values, count).  history[] has
\* MAX_HISTORY_POINTS elements and the loop is bounded by count alone:
\* the assignments to history[20], history[21], ... are out of bounds
\* (undefined behaviour).  In WandbMetric history_count is the byte that
\* follows history[19], so the build either keeps the count it stored
\* before the loop or has it overwritten by the low byte of values[20].
set_metric_history ==
    /\ history_pc = "call"
    /\ LET count == Len(offered)
       IN  /\ metric_history' = SubSeq(offered, 1, Min(count, MAX_HISTORY_POINTS))
           /\ past_end' = SubSeq(offered, MAX_HISTORY_POINTS + 1, count)
           /\ metric_history_count' \in
                 {count} \cup (IF count > MAX_HISTORY_POINTS
                               THEN {ToUint8(offered[MAX_HISTORY_POINTS + 1])}
                               ELSE {})
    /\ history_pc' = "stored"
    /\ UNCHANGED <<vars, interp_vars, value_anim_vars, net_vars, codec_vars, graph_vars, pack_vars, send_vars, offered>>

HistoryNext == set_metric_history

HistorySpec == HistoryInit /\ [][HistoryNext]_<<vars, aux_vars>>

\* ------------------------------------------------------------------------
\* The companion's sendRunsToWatch called on its own
\* ------------------------------------------------------------------------

\* longest run list handed to sendRunsToWatch
MaxRuns == 3

\* the run states of the list, in the order of JavaScript's string '<'
StatesInOrder == <<"crashed", "failed", "finished", "running">>

RunStates == {StatesInOrder[k] : k \in 1..Len(StatesInOrder)}

\* a < b for two run states
StringLess(a, b) ==
    \E i, j \in 1..Len(StatesInOrder) :
        StatesInOrder[i] = a /\ StatesInOrder[j] = b /\ i < j

RunsInit ==
    /\ AppInit
    /\ InterpIdle
    /\ ValueAnimIdle
    /\ NetIdle
    /\ CodecIdle
    /\ GraphIdle
    /\ PackIdle
    /\ HistoryIdle
    /\ send_pc = "call"
    /\ \E n \in 0..MaxRuns : \E st \in [1..n -> RunStates] :
          runs = [i \in 1..n |-> [name |-> i, state |-> st[i]]]
    /\ send_index = 0
    /\ outbox = <<>>

\* the comparison without its first two lines: by state string alone
compare_ByStateOnly(a, b) ==
    IF StringLess(a.state, b.state) THEN -1
    ELSE IF StringLess(b.state, a.state) THEN 1
    ELSE 0

\* the function handed to runs.sort
compare(a, b) ==
    IF a.state = "running" /\ b.state # "running" THEN -1
    ELSE IF a.state # "running" /\ b.state = "running" THEN 1
    ELSE IF StringLess(a.state, b.state) THEN -1
    ELSE IF StringLess(b.state, a.state) THEN 1
    ELSE 0

\* the arrays runs.sort(compare) can leave: the elements of the array in an
\* order in which no element comes before one that compares lower (the
\* order of elements that compare equal is up to the engine)
Sorted(array) ==
    {sorted \in {[i \in 1..Len(array) |-> array[p[i]]] : p \in Permutations(1..Len(array))} :
        \A i, j \in 1..Len(array) : i < j => compare(sorted[i], sorted[j]) <= 0}

\* the message sendNext builds for runs[index] (0-based i)
RunMessage(array, i) ==
    IF i = 0
    THEN [RUN_NAME |-> array[i + 1].name, RUN_STATE |-> array[i + 1].state,
          RUNS_COUNT |-> Len(array)]
    ELSE [RUN_NAME |-> array[i + 1].name, RUN_STATE |-> array[i + 1].state]

\* sendRunsToWatch(runs), up to the return of its first sendNext()
sendRunsToWatch ==
    /\ send_pc = "call"
    /\ IF Len(runs) = 0
       THEN /\ outbox' = <<[RUNS_COUNT |-> 0]>>
            /\ send_pc' = "done"
            /\ UNCHANGED <<runs, send_index>>
       ELSE /\ runs' \in Sorted(runs)
            /\ send_index' = 0
            /\ outbox' = <<RunMessage(runs', 0)>>
            /\ send_pc' = "sent"
    /\ UNCHANGED <<vars, interp_vars, value_anim_vars, net_vars, codec_vars, graph_vars, pack_vars, history_vars>>

\* the success callback of Pebble.sendAppMessage: index++; sendNext()
SendAcked ==
    /\ send_pc = "sent"
    /\ send_index' = send_index + 1
    /\ IF send_index' >= Len(runs)
       THEN /\ send_pc' = "done"
            /\ UNCHANGED outbox
       ELSE /\ outbox' = Append(outbox, RunMessage(runs, send_index'))
            /\ UNCHANGED send_pc
    /\ UNCHANGED <<vars, interp_vars, value_anim_vars, net_vars, codec_vars, graph_vars, pack_vars, history_vars, runs>>

\* mutant of SendFailed: the failure callback sends the message again
SendFailed_Retry ==
    /\ send_pc = "sent"
    /\ outbox' = Append(outbox, RunMessage(runs, send_index))
    /\ UNCHANGED <<vars, interp_vars, value_anim_vars, net_vars, codec_vars, graph_vars, pack_vars, history_vars, runs, send_index, send_pc>>

\* the failure callback of Pebble.sendAppMessage: it only logs
SendFailed ==
    /\ send_pc = "sent"
    /\ send_pc' = "failed"
    /\ UNCHANGED <<vars, interp_vars, value_anim_vars, net_vars, codec_vars, graph_vars, pack_vars, history_vars, runs, send_index, outbox>>

RunsNext == sendRunsToWatch \/ SendAcked \/ SendFailed

RunsSpec == RunsInit /\ [][RunsNext]_<<vars, aux_vars>>

\* ------------------------------------------------------------------------
\* C11: the codec round trip
\* ------------------------------------------------------------------------

\* the text without its sign
Unsigned(s) == IF Len(s) > 0 /\ s[1] = "-" THEN Tail(s) ELSE s

\* position of the decimal point in a text, 0 if there is none
DotAt(s) == IF \E i \in 1..Len(s) : s[i] = "."
            THEN CHOOSE i \in 1..Len(s) : s[i] = "." /\ \A j \in 1..(i - 1) : s[j] # "."
            ELSE 0

\* the digits before and after the decimal point of an unsigned text
IntText(u) == IF DotAt(u) = 0 THEN u ELSE SubSeq(u, 1, DotAt(u) - 1)

FracText(u) == IF DotAt(u) = 0 THEN <<>> ELSE SubSeq(u, DotAt(u) + 1, Len(u))

AllDigits(t) == \A i \in 1..Len(t) : IsDigit(t[i])

\* the strings -?\d+(\.\d{1,4})?
IsDecimalString(s) ==
    LET u == Unsigned(s)
    IN  /\ Len(IntText(u)) >= 1
        /\ AllDigits(IntText(u))
        /\ AllDigits(FracText(u))
        /\ DotAt(u) = 0 \/ Len(FracText(u)) \in 1..4

\* marks a magnitude above INT32_MAX
TooBig == INT32_MIN

RECURSIVE Magnitude(_)
\* the number a digit string denotes, TooBig when it does not fit int32_t
Magnitude(t) ==
    IF t = <<>> THEN 0
    ELSE LET m == Magnitude(SubSeq(t, 1, Len(t) - 1))
             d == DigitVal(t[Len(t)])
         IN  IF m = TooBig \/ m > (INT32_MAX - d) \div 10 THEN TooBig ELSE m * 10 + d

\* the magnitude of a decimal string's value times 10000
ScaledMagnitude(s) ==
    LET u == Unsigned(s)
    IN  Magnitude(IntText(u) \o FracText(u) \o [i \in 1..(4 - Len(FracText(u))) |-> "0"])

\* a decimal string's value times 10000
ScaledValue(s) ==
    IF Len(s) > 0 /\ s[1] = "-" THEN -ScaledMagnitude(s) ELSE ScaledMagnitude(s)

\* C11: for every string -?\d+(\.\d{1,4})? whose value times 10000 fits
\* int32_t, parse_fixed_point returns that scaled value and the number of
\* fractional digits, and format_fixed_point of the two gives a decimal
\* string of the same value with exactly that many fractional digits, no
\* decimal point when there are none, and a leading '-' exactly for
\* negative values.
C11_CodecRoundTrip ==
    (codec_pc # "off" /\ IsDecimalString(in_str) /\ ScaledMagnitude(in_str) # TooBig)
    => /\ codec_pc \in {"parsed", "formatted"}
          => /\ out_value = ScaledValue(in_str)
             /\ out_decimals = Len(FracText(Unsigned(in_str)))
       /\ codec_pc = "formatted"
          => /\ IsDecimalString(out_buffer)
             /\ ScaledValue(out_buffer) = ScaledValue(in_str)
             /\ Len(FracText(Unsigned(out_buffer))) = out_decimals
             /\ out_decimals = 0 => DotAt(out_buffer) = 0
             /\ (out_buffer[1] = "-") <=> (ScaledValue(in_str) < 0)

C11_Witness ==
    /\ codec_pc = "formatted"
    /\ in_str = <<"-", "7", ".", "0", "7">>
    /\ out_value = -70700
    /\ out_decimals = 2
    /\ out_buffer = <<"-", "7", ".", "0", "7">>

\* ------------------------------------------------------------------------
\* C12: the width of the representation
\* ------------------------------------------------------------------------

\* C12: for every decimal string of at most 15 characters parse_fixed_point
\* returns exactly the string's value times 10000, without wrap-around (the
\* representation is wide enough for every such value).
C12_ParseExactTo15Chars ==
    (codec_pc \in {"parsed", "formatted"} /\ IsDecimalString(in_str) /\ Len(in_str) <= 15)
    => /\ ScaledMagnitude(in_str) # TooBig
       /\ out_value = ScaledValue(in_str)

\* ------------------------------------------------------------------------
\* C13, C14: range and coordinates of the graph
\* ------------------------------------------------------------------------

\* d is the difference a - b of two int32_t values a >= b, computed exactly
IsDifference(d, a, b) ==
    /\ d >= 0
    /\ IF a >= 0 THEN a - d = b ELSE d <= a - INT32_MIN /\ a - d = b

SmallestSample == CHOOSE v \in {samples[i] : i \in 1..Len(samples)} :
                     \A i \in 1..Len(samples) : v <= samples[i]

LargestSample == CHOOSE v \in {samples[i] : i \in 1..Len(samples)} :
                    \A i \in 1..Len(samples) : v >= samples[i]

\* C13: whenever the update procedure computes the range of a non-empty
\* sample sequence (it returns before that for fewer than 2 samples), it
\* yields the smallest and the largest stored sample and range = max - min,
\* except range = 1 when all samples are equal; range is never 0.
C13_RangeOfSamples ==
    (graph_pc = "drawn" /\ Len(samples) >= 1)
    => /\ min_val = SmallestSample
       /\ max_val = LargestSample
       /\ IF SmallestSample = LargestSample THEN range = 1
          ELSE IsDifference(range, LargestSample, SmallestSample)
       /\ range # 0

StrictlyIncreasing(h) == \A i \in 1..(Len(h) - 1) : h[i] < h[i + 1]

\* C14: for every strictly increasing sample sequence of length 2..20 and
\* every size of the layer, y does not increase and x does not decrease
\* with the sample index, the first x is the margin and the last x is the
\* width minus the margin.
C14_MonotoneMapping ==
    (graph_pc = "drawn" /\ StrictlyIncreasing(samples))
    => /\ \A i \in 1..(Len(points) - 1) :
             /\ points[i + 1].y <= points[i].y
             /\ points[i + 1].x >= points[i].x
       /\ points[1].x = 2
       /\ points[Len(points)].x = bounds.w - 2

\* ------------------------------------------------------------------------
\* C15: the packed history
\* ------------------------------------------------------------------------

\* the four 16-bit digits of the 8 bytes block[1..8], lowest first
DigitsOfBlock(block) == [k \in 1..4 |-> block[2 * k - 1] + 256 * block[2 * k]]

RECURSIVE AddOne(_, _)
\* digits + 1 modulo 2^64, from digit k on
AddOne(digits, k) ==
    IF k > 4 THEN digits
    ELSE IF digits[k] = 65535 THEN AddOne([digits EXCEPT ![k] = 0], k + 1)
    ELSE [digits EXCEPT ![k] = digits[k] + 1]

\* the number that 8 bytes denote as a little-endian signed 64-bit integer
DecodeInt64(block) ==
    LET digits == DigitsOfBlock(block)
    IN  IF digits[4] >= 32768
        THEN [neg |-> TRUE, mag |-> AddOne([k \in 1..4 |-> 65535 - digits[k]], 1)]
        ELSE [neg |-> FALSE, mag |-> digits]

\* C15: for every sequence of integers below 2^53 in magnitude
\* packInt64Array returns 8 bytes per value, and reading each block of 8
\* bytes as a little-endian two's-complement 64-bit integer gives the
\* values back, negative ones included.
C15_PackRoundTrip ==
    pack_pc = "packed"
    => /\ Len(packed) = 8 * Len(values)
       /\ \A j \in 1..Len(packed) : packed[j] \in 0..255
       /\ \A i \in 1..Len(values) :
             DecodeInt64(SubSeq(packed, 8 * i - 7, 8 * i)) = values[i]

\* -2^32 and -50000 packed: the carry into the upper word is taken for the
\* first and not for the second
C15_Witness ==
    /\ pack_pc = "packed"
    /\ values = <<[neg |-> TRUE, mag |-> <<0, 0, 1, 0>>],
                  [neg |-> TRUE, mag |-> <<50000, 0, 0, 0>>]>>
    /\ packed = <<0, 0, 0, 0, 255, 255, 255, 255,
                  176, 60, 255, 255, 255, 255, 255, 255>>

\* ------------------------------------------------------------------------
\* C16: the capacity of the history
\* ------------------------------------------------------------------------

\* C16: storing a history writes at most 20 samples: of more than 20
\* offered values the first 20 are kept and the rest is dropped, and
\* history_count never exceeds 20.
C16_HistoryTruncated ==
    history_pc = "stored"
    => /\ past_end = <<>>
       /\ metric_history = SubSeq(offered, 1, Min(Len(offered), MAX_HISTORY_POINTS))
       /\ metric_history_count = Min(Len(offered), MAX_HISTORY_POINTS)
       /\ metric_history_count <= MAX_HISTORY_POINTS

\* ------------------------------------------------------------------------
\* C17: the order of the runs sent
\* ------------------------------------------------------------------------

\* the states of the run messages sent so far, in the order sent
SentStates ==
    LET run_messages == SelectSeq(outbox, LAMBDA m : "RUN_STATE" \in DOMAIN m)
    IN  [i \in 1..Len(run_messages) |-> run_messages[i].RUN_STATE]

\* C17: the runs are sent grouped by state: the running ones before all
\* others, the others in ascending order of their state string, so that
\* runs of equal state follow one another.
C17_RunsGroupedByState ==
    /\ \A i, j \in 1..Len(SentStates) :
          i < j => /\ SentStates[j] = "running" => SentStates[i] = "running"
                   /\ (SentStates[i] # "running" /\ SentStates[j] # "running")
                      => ~StringLess(SentStates[j], SentStates[i])
    /\ \A i, k, j \in 1..Len(SentStates) :
          (i < k /\ k < j /\ SentStates[i] = SentStates[j]) => SentStates[k] = SentStates[i]
    /\ send_pc = "done" => Len(SentStates) = Len(runs)

\* a list received as finished, running, crashed and sent completely
C17_Witness ==
    /\ send_pc = "done"
    /\ SentStates = <<"running", "crashed", "finished">>
    /\ [i \in 1..Len(outbox) |-> outbox[i].RUN_NAME] = <<2, 3, 1>>

\* ------------------------------------------------------------------------
\* C18: repeat while a button is held
\* ------------------------------------------------------------------------

\* the button of a direction is down
Held(direction) == IF direction = 1 THEN up_held ELSE down_held

\* do_scrub(direction) has just run its bounds check on the index it found:
\* the index moved and a scrub animation starts, or the index stayed at the
\* edge and a bounce starts
MovedOrBounced(direction) ==
    /\ s_scrub_animation' \in Handles
    /\ scrub_anims'[s_scrub_animation'].tick = 0
    /\ IF s_scrub_index + direction \in 0..(CurrentHistoryCount - 1)
       THEN s_scrub_index' = s_scrub_index + direction /\ CurrentScrubKind' = "scrub"
       ELSE s_scrub_index' = s_scrub_index /\ CurrentScrubKind' = "bounce"

\* C18: while a directional button is held in scrub mode a repeat timer is
\* pending from the press until that button is released, whatever happens
\* to the other directional button meanwhile (a Select that leaves scrub
\* mode apart); each firing moves or bounces in the held direction through
\* the bounds check of a press, with the animation in flight superseded,
\* and re-arms the timer.
C18_RepeatWhileHeld ==
    /\ [][\A d \in {-1, 1} :
            (s_scrub_mode /\ (IF d = 1 THEN PressUp ELSE PressDown))
            => (s_scrub_repeat_timer' /\ MovedOrBounced(d))]_vars
    /\ [][\A d \in {-1, 1} :
            (s_scrub_mode /\ s_scrub_mode' /\ Held(d) /\ Held(d)'
             /\ s_scrub_repeat_timer /\ ~SelectExit)
            => s_scrub_repeat_timer']_vars
    /\ [][\A d \in {-1, 1} :
            (TimerFire /\ s_scrub_mode /\ Held(d) /\ ~Held(-d))
            => (MovedOrBounced(d) /\ s_scrub_repeat_timer'
                /\ (s_scrub_animation \in Handles /\ s_scrub_animation' # s_scrub_animation
                    => scrub_anims'[s_scrub_animation] = NoAnim))]_vars

\* ------------------------------------------------------------------------
\* C19: the "(PAST)" suffix of the name
\* ------------------------------------------------------------------------

\* C19: whenever scrub mode is active and no scrub-family animation is in
\* flight, the name shown carries the "(PAST)" suffix exactly if the scrub
\* index is not the last sample; no animation tick changes the name.
C19_PastSuffixAtRest ==
    /\ []((window = "detail" /\ s_scrub_mode /\ \A h \in Handles : scrub_anims[h] = NoAnim)
          => (name_text.past <=> (s_scrub_index < CurrentHistoryCount - 1)))
    /\ [][(\E h \in Handles : ScrubTick(h)) => name_text' = name_text]_vars

\* ------------------------------------------------------------------------
\* C20: the edge bounce
\* ------------------------------------------------------------------------

\* how far past an edge a bounce reaches
BounceReach == SCRUB_FIXED_SCALE \div 3

\* half of the animation's progress range
HalfProgress == ANIMATION_NORMALIZED_MAX \div 2

\* progress values a bounce is examined at: the ends, the half and its
\* neighbours, the quarters, and the values the updates are delivered with
BounceProgressSamples ==
    {0, 1, HalfProgress \div 2, HalfProgress - 1, HalfProgress, HalfProgress + 1,
     HalfProgress + HalfProgress \div 2, ANIMATION_NORMALIZED_MAX - 1,
     ANIMATION_NORMALIZED_MAX}
    \cup {Progress(k) : k \in 1..NumTicks}

\* the bounce s_scrub_animation refers to was started in this scrub session
\* with the cursor at rest on the edge it returns to
BounceFromRest ==
    /\ window = "detail"
    /\ s_scrub_mode
    /\ CurrentScrubKind = "bounce"
    /\ s_scrub_from_index_fixed = s_bounce_return_fixed

\* the last sample's position, the upper edge
UpperEdge == (CurrentHistoryCount - 1) * SCRUB_FIXED_SCALE

\* how far outside the edge a cursor position lies
PastEdge(position) ==
    IF s_bounce_target_fixed < s_bounce_return_fixed
    THEN s_bounce_return_fixed - position
    ELSE position - s_bounce_return_fixed

\* the bounce's path as a function of progress: out to BounceReach at the
\* half, back to the edge at the end, monotone on both legs
BouncePath ==
    /\ \/ s_bounce_return_fixed = 0
          /\ s_bounce_target_fixed = -BounceReach
       \/ s_bounce_return_fixed = UpperEdge
          /\ s_bounce_target_fixed = UpperEdge + BounceReach
    /\ s_scrub_index = s_bounce_return_fixed \div SCRUB_FIXED_SCALE
    /\ \A p \in BounceProgressSamples :
          /\ PastEdge(bounce_animation_update(p)) \in 0..BounceReach
          /\ \A q \in BounceProgressSamples :
                /\ (p < q /\ q <= HalfProgress)
                   => PastEdge(bounce_animation_update(p)) <= PastEdge(bounce_animation_update(q))
                /\ (HalfProgress <= p /\ p < q)
                   => PastEdge(bounce_animation_update(p)) >= PastEdge(bounce_animation_update(q))
    /\ PastEdge(bounce_animation_update(0)) = 0
    /\ PastEdge(bounce_animation_update(HalfProgress)) = BounceReach
    /\ PastEdge(bounce_animation_update(ANIMATION_NORMALIZED_MAX)) = 0

\* an update or the completion of the bounce s_scrub_animation refers to
BounceStep(h) ==
    /\ h = s_scrub_animation
    /\ ScrubTick(h) \/ BounceTeardown(h)

\* C20: a bounce started with the cursor at rest on an edge moves the cursor
\* monotonically out to exactly 333 past that edge, reached at half progress,
\* and monotonically back; no update puts the cursor farther than 333 past
\* the edge; on completion the cursor is exactly on the edge (0 or
\* (N-1)*1000) and s_scrub_index is unchanged
C20_BounceOutAndBack ==
    /\ [](BounceFromRest => BouncePath)
    /\ [][\A h \in Handles :
            (BounceFromRest /\ BounceStep(h))
            => /\ PastEdge(s_scrub_current_index_fixed') \in 0..BounceReach
               /\ s_scrub_index' = s_scrub_index
               /\ BounceTeardown(h)
                  => /\ s_scrub_current_index_fixed' = s_bounce_return_fixed
                     /\ s_scrub_current_index_fixed' \in {0, UpperEdge}]_vars

\* a bounce started at rest on an edge has the cursor outside that edge
C20_Witness ==
    /\ BounceFromRest
    /\ scrub_anims[s_scrub_animation].tick > 0
    /\ PastEdge(s_scrub_current_index_fixed) > 0

\* ------------------------------------------------------------------------
\* C21: the optimistic commit of an in-bounds move
\* ------------------------------------------------------------------------

\* a call of do_scrub whose target index is within [0, N-1]
InBoundsMove(direction) ==
    /\ ScrubMove(direction)
    /\ 0 <= s_scrub_index + direction
    /\ s_scrub_index + direction <= CurrentHistoryCount - 1

\* the scrub animation of the running scrub session is the current animation
SessionScrub ==
    /\ window = "detail"
    /\ s_scrub_mode
    /\ CurrentScrubKind = "scrub"

\* x lies between a and b, the ends included
Between(x, a, b) == (a <= x /\ x <= b) \/ (b <= x /\ x <= a)

\* C21: an in-bounds Up/Down move in scrub mode commits s_scrub_index to the
\* target index in the step that handles the input, before any update of the
\* new animation, and schedules a scrub animation from the cursor's position
\* to target*1000; the animation's updates keep the cursor between the two,
\* the last one puts it on target*1000, and when the animation completes
\* during the scrub session that started it the cursor is exactly target*1000
\* and the index is still the target
C21_OptimisticCommit ==
    /\ [][\A d \in {-1, 1} :
            InBoundsMove(d)
            => /\ s_scrub_index' = s_scrub_index + d
               /\ CurrentScrubKind' = "scrub"
               /\ scrub_anims'[s_scrub_animation'].tick = 0
               /\ s_scrub_from_index_fixed' = s_scrub_current_index_fixed'
               /\ s_scrub_to_index_fixed' = (s_scrub_index + d) * SCRUB_FIXED_SCALE]_vars
    /\ [](SessionScrub => s_scrub_to_index_fixed = s_scrub_index * SCRUB_FIXED_SCALE)
    /\ [][\A h \in Handles :
            (SessionScrub /\ h = s_scrub_animation /\ ScrubTick(h))
            => /\ Between(s_scrub_current_index_fixed',
                          s_scrub_from_index_fixed, s_scrub_to_index_fixed)
               /\ scrub_anims'[h].tick = NumTicks
                  => s_scrub_current_index_fixed' = s_scrub_to_index_fixed
               /\ s_scrub_index' = s_scrub_index]_vars
    /\ [][\A h \in Handles :
            (SessionScrub /\ h = s_scrub_animation /\ ScrubTeardown(h))
            => /\ s_scrub_current_index_fixed' = s_scrub_to_index_fixed
               /\ s_scrub_current_index_fixed' = s_scrub_index * SCRUB_FIXED_SCALE
               /\ s_scrub_index' = s_scrub_index]_vars

\* C21 witness: the index is already the target while the cursor is still at
\* the start of the new animation, one sample away
C21_Witness ==
    /\ SessionScrub
    /\ scrub_anims[s_scrub_animation].tick = 0
    /\ s_scrub_to_index_fixed = s_scrub_index * SCRUB_FIXED_SCALE
    /\ s_scrub_current_index_fixed = s_scrub_from_index_fixed
    /\ Abs(s_scrub_current_index_fixed - s_scrub_to_index_fixed) = SCRUB_FIXED_SCALE

\* ------------------------------------------------------------------------
\* C22: the wiggle
\* ------------------------------------------------------------------------

\* the ends of the wiggle's first and second phase
WiggleThird == ANIMATION_NORMALIZED_MAX \div 3
WiggleTwoThirds == (2 * ANIMATION_NORMALIZED_MAX) \div 3

\* progress values the wiggle is examined at: the ends, the phase boundaries
\* and their neighbours, the middle of each phase, and the values the updates
\* are delivered with
WiggleProgressSamples ==
    {0, 1, WiggleThird \div 2, WiggleThird - 1, WiggleThird, WiggleThird + 1,
     ANIMATION_NORMALIZED_MAX \div 2, WiggleTwoThirds - 1, WiggleTwoThirds,
     WiggleTwoThirds + 1, WiggleTwoThirds + WiggleThird \div 2,
     ANIMATION_NORMALIZED_MAX - 1, ANIMATION_NORMALIZED_MAX}
    \cup {Progress(k) : k \in 1..NumTicks}

\* the cursor's offset from the wiggle's start position at a progress value
WiggleOffset(progress) == wiggle_animation_update(progress) - s_wiggle_start_fixed

\* the wiggle's path as a function of progress: 0 down to minus one step, up
\* to plus half a step, back to 0, monotone within each phase and without a
\* jump at the phase boundaries
WigglePath ==
    /\ s_wiggle_amount = SCRUB_FIXED_SCALE
    /\ WiggleOffset(0) = 0
    /\ WiggleOffset(WiggleThird) = -SCRUB_FIXED_SCALE
    /\ WiggleOffset(WiggleTwoThirds) = SCRUB_FIXED_SCALE \div 2
    /\ WiggleOffset(ANIMATION_NORMALIZED_MAX) = 0
    /\ WiggleOffset(WiggleThird - 1) <= 1 - SCRUB_FIXED_SCALE
    /\ WiggleOffset(WiggleTwoThirds - 1) >= SCRUB_FIXED_SCALE \div 2 - 1
    /\ \A p \in WiggleProgressSamples :
          /\ -SCRUB_FIXED_SCALE <= WiggleOffset(p)
          /\ WiggleOffset(p) <= SCRUB_FIXED_SCALE \div 2
          /\ \A q \in WiggleProgressSamples :
                /\ (p < q /\ q <= WiggleThird) => WiggleOffset(p) >= WiggleOffset(q)
                /\ (WiggleThird <= p /\ p < q /\ q <= WiggleTwoThirds)
                   => WiggleOffset(p) <= WiggleOffset(q)
                /\ (WiggleTwoThirds <= p /\ p < q) => WiggleOffset(p) >= WiggleOffset(q)

\* an update of a wiggle animation
WiggleTick(h) == scrub_anims[h].kind = "wiggle" /\ ScrubTick(h)

\* C22: no update of the wiggle changes s_scrub_index or the value text; the
\* cursor's offset from the start position goes from 0 down to -1000, up to
\* +500 and back to 0 and stays within [-1000, +500]; on completion the
\* cursor is exactly on the start position
C22_WiggleLeavesIndexAndValue ==
    /\ [](InFlight("wiggle") => WigglePath)
    /\ [][\A h \in Handles :
            WiggleTick(h)
            => /\ s_scrub_index' = s_scrub_index
               /\ value_text' = value_text
               /\ s_scrub_current_index_fixed' - s_wiggle_start_fixed >= -SCRUB_FIXED_SCALE
               /\ s_scrub_current_index_fixed' - s_wiggle_start_fixed
                     <= SCRUB_FIXED_SCALE \div 2]_vars
    /\ [][\A h \in Handles :
            WiggleTeardown(h)
            => /\ s_scrub_current_index_fixed' = s_wiggle_start_fixed
               /\ s_scrub_index' = s_scrub_index]_vars

\* C22 witness: the wiggle has swung the cursor one sample below the start
\* position while the value text still shows the sample scrub mode was
\* entered on
C22_Witness ==
    /\ s_scrub_mode
    /\ CurrentScrubKind = "wiggle"
    /\ scrub_anims[s_scrub_animation].tick > 0
    /\ s_scrub_current_index_fixed = s_wiggle_start_fixed - SCRUB_FIXED_SCALE
    /\ s_scrub_index * SCRUB_FIXED_SCALE = s_wiggle_start_fixed
    /\ value_text = SampleText(selected_run_index, current_metric_page, s_scrub_index)

\* ------------------------------------------------------------------------
\* C23: leaving scrub mode
\* ------------------------------------------------------------------------

\* the event loop delivers the next update or the completion of a scheduled
\* animation
AnimationStep ==
    /\ \E h \in Handles :
          \/ ScrubTick(h)
          \/ ScrubTeardown(h)
          \/ BounceTeardown(h)
          \/ WiggleTeardown(h)
          \/ ExitTeardown(h)
          \/ ScrollTick(h)
          \/ ScrollTeardown(h)
    /\ UNCHANGED aux_vars

\* an animation is scheduled: exactly the states in which AnimationStep is
\* enabled (a scheduled animation has its next update or its teardown due)
AnimationPending ==
    \E h \in Handles : scrub_anims[h] # NoAnim \/ scroll_anims[h] # NoAnim

\* the program with an event loop that keeps serving scheduled animations:
\* weak fairness of AnimationStep, WF_<<vars, aux_vars>>(AnimationStep), with
\* its enabling condition written out as AnimationPending
FairSpec ==
    Spec /\ ([]<>(~AnimationPending) \/ []<><<AnimationStep>>_<<vars, aux_vars>>)

\* the exit animation started by Select is the current animation and nothing
\* has superseded it
ExitRunning ==
    /\ window = "detail"
    /\ s_scrub_mode
    /\ CurrentScrubKind = "exit"

\* C23 as stated: Select while scrubbing starts the exit animation from the
\* cursor's position to (history_count-1)*1000; it moves the cursor there
\* and, unless an Up or Down press supersedes it, eventually completes (the
\* window's unload ends scrub mode as well); after completion scrub mode is
\* inactive, no scrub-family animation is scheduled, the value text is the
\* metric's display value and the name has no past suffix
C23_ExitCompletes ==
    /\ [][SelectExit
          => /\ CurrentScrubKind' = "exit"
             /\ s_scrub_current_index_fixed' = s_scrub_current_index_fixed
             /\ s_scrub_from_index_fixed' = s_scrub_current_index_fixed
             /\ s_scrub_to_index_fixed' = MaxFixed]_vars
    /\ [][\A h \in Handles :
            (ExitRunning /\ h = s_scrub_animation /\ ScrubTick(h))
            => /\ Between(s_scrub_current_index_fixed', s_scrub_from_index_fixed, MaxFixed)
               /\ scrub_anims'[h].tick = NumTicks
                  => s_scrub_current_index_fixed' = MaxFixed]_vars
    /\ ExitRunning ~> (~s_scrub_mode \/ CurrentScrubKind \in {"scrub", "bounce"})
    /\ [][\A h \in Handles :
            (ExitRunning /\ h = s_scrub_animation /\ ExitTeardown(h))
            => /\ ~s_scrub_mode'
               /\ Scheduled(scrub_anims') = {}
               /\ value_text' = metric_value(selected_run_index, current_metric_page)
               /\ name_text' = plain_name(current_metric_page)]_vars

\* ------------------------------------------------------------------------
\* C24: the indicator between the points
\* ------------------------------------------------------------------------

\* C24: in scrub mode, on a metric with N >= 2 samples and for every cursor
\* position, overshoot below 0 and above (N-1)*1000 included, the indicator
\* is interpolated between points[k] and points[k+1] with 0 <= k <= N-2, and
\* a cursor exactly on k*1000, 0 <= k <= N-1, puts the indicator exactly on
\* the point of sample k
C24_IndicatorWithinPoints ==
    (graph_pc = "drawn" /\ graph_scrub_mode)
    => /\ graph_idx_int \in 0..(Len(samples) - 2)
       /\ \A k \in 0..(Len(samples) - 1) :
             graph_index_fixed = k * SCRUB_FIXED_SCALE => indicator_point = points[k + 1]

\* C24 witness: the cursor is on the last of three samples; the indicator is
\* computed from the last pair of points and lies on the last point
C24_Witness ==
    /\ graph_pc = "drawn"
    /\ graph_scrub_mode
    /\ Len(samples) = MaxSamples
    /\ graph_index_fixed = (Len(samples) - 1) * SCRUB_FIXED_SCALE
    /\ graph_idx_int = Len(samples) - 2
    /\ indicator_point = points[Len(samples)]
    /\ points[Len(samples)] # points[Len(samples) - 1]

\* ------------------------------------------------------------------------
\* The scrub value display called on its own
\* ------------------------------------------------------------------------

\* the sample values of the histories handed to the display
InterpValues == {-50000, 0, 9523, 3000000, 40000000}

\* the display values (metric->value) of the metrics: 0, 2 and 4 decimals
InterpDisplays == {<<"5", "0">>, <<"1", "2", ".", "4", "5">>, <<"0", ".", "9", "5", "2", "3">>}

InterpInit ==
    /\ AppInit
    /\ CodecIdle
    /\ GraphIdle
    /\ PackIdle
    /\ HistoryIdle
    /\ SendIdle
    /\ ValueAnimIdle
    /\ NetIdle
    /\ interp_pc \in {"call", "enter"}
    /\ interp_history \in UNION {[1..n -> InterpValues] :
                                     n \in (IF interp_pc = "call" THEN 1 ELSE 0)..MaxSamples}
    /\ interp_display \in InterpDisplays
    /\ interp_index_fixed \in IF interp_pc = "call" THEN CursorValues ELSE {0}
    /\ interp_value = 0
    /\ interp_text = <<>>
    /\ interp_scrub_index = 0
    /\ interp_reads = {}

\* update_scrub_value_display_interpolated(index_fixed) for the metric of
\* InterpSpec: a read outside history[0 .. history_count - 1] yields whatever
\* the memory beside the array holds
ScrubValueShown(index_fixed) ==
    LET count == Len(interp_history)
        decimals == parse_fixed_point(interp_display).decimals
    IN  /\ interp_reads' = HistoryReads(count, index_fixed)
        /\ IF interp_reads' \subseteq 0..(count - 1)
           THEN interp_value' = HistoryValue(interp_history, index_fixed)
           ELSE interp_value' \in InterpValues
        /\ interp_text' = format_fixed_point(interp_value', decimals)

\* a call of update_scrub_value_display_interpolated(index_fixed)
ScrubValueCall ==
    /\ interp_pc = "call"
    /\ interp_pc' = "shown"
    /\ ScrubValueShown(interp_index_fixed)
    /\ UNCHANGED <<vars, codec_vars, graph_vars, pack_vars, history_vars, send_vars,
                   value_anim_vars, net_vars, interp_history, interp_display, interp_index_fixed,
                   interp_scrub_index>>

\* enter_scrub_mode on the metric: the index, the cursor and the value text
EnterScrubCall ==
    /\ interp_pc = "enter"
    /\ interp_pc' = "entered"
    /\ interp_scrub_index' = ToUint8(Len(interp_history) - 1)
    /\ interp_index_fixed' = interp_scrub_index' * SCRUB_FIXED_SCALE
    /\ ScrubValueShown(interp_index_fixed')
    /\ UNCHANGED <<vars, codec_vars, graph_vars, pack_vars, history_vars, send_vars,
                   value_anim_vars, net_vars, interp_history, interp_display>>

InterpNext == ScrubValueCall \/ EnterScrubCall

InterpSpec == InterpInit /\ [][InterpNext]_<<vars, aux_vars>>

\* ------------------------------------------------------------------------
\* C25: the interpolated value text
\* ------------------------------------------------------------------------

\* v1 + (v2 - v1) * frac / 1000 truncated toward zero, in the integers
ExactInterpolation(v1, v2, frac) ==
    LET mag == Abs(v2 - v1)
        part == (mag \div SCRUB_FIXED_SCALE) * frac
                + ((mag % SCRUB_FIXED_SCALE) * frac) \div SCRUB_FIXED_SCALE
    IN  IF v2 >= v1 THEN v1 + part ELSE v1 - part

\* a scaled value cut to the given number of decimals
CutToDecimals(value, decimals) ==
    LET unit == Pow10(4 - decimals)
    IN  IF value >= 0 THEN value - (value % unit) ELSE (((-value) % unit) + value)

\* C25 as stated: for any sample values the history can hold, the value shown
\* for a cursor position is the truncating linear interpolation
\* v1 + (v2 - v1)*frac/1000 between the two samples adjacent to the cursor
\* (the cursor first clamped to [0, (N-1)*1000], so that overshoot shows the
\* edge sample); it lies between v1 and v2 and is formatted with the decimal
\* count of the metric's display value
C25_InterpolatedValueShown ==
    interp_pc = "shown"
    => LET n == Len(interp_history)
           top == (n - 1) * SCRUB_FIXED_SCALE
           clamped == IF interp_index_fixed < 0 THEN 0
                      ELSE IF interp_index_fixed > top THEN top
                      ELSE interp_index_fixed
           k == clamped \div SCRUB_FIXED_SCALE
           decimals == Len(FracText(Unsigned(interp_display)))
       IN  /\ IF k >= n - 1
              THEN interp_value = interp_history[n]
              ELSE /\ interp_value = ExactInterpolation(interp_history[k + 1],
                                                       interp_history[k + 2],
                                                       clamped % SCRUB_FIXED_SCALE)
                   /\ Between(interp_value, interp_history[k + 1], interp_history[k + 2])
           /\ Len(FracText(Unsigned(interp_text))) = decimals
           /\ ScaledValue(interp_text) = CutToDecimals(interp_value, decimals)

\* ------------------------------------------------------------------------
\* C26: the page shown during a slide
\* ------------------------------------------------------------------------

\* a press while browsing that changes the page
PageChange ==
    /\ ~s_scrub_mode
    /\ \/ PressUp /\ ~ScrollAtEdge(current_metric_page - 1, num_metrics(selected_run_index))
       \/ PressDown /\ ~ScrollAtEdge(current_metric_page + 1, num_metrics(selected_run_index))

\* the current paging animation is a slide in its outbound half
OutboundRunning ==
    /\ window = "detail"
    /\ CurrentScrollKind = "slide"
    /\ scroll_anims[s_current_animation].tick < OutboundTicks

\* the update of a slide that ends its outbound half
OutboundStops ==
    \E h \in Handles : /\ ScrollTick(h)
                        /\ scroll_anims[h].kind = "slide"
                        /\ scroll_anims'[h].tick = OutboundTicks

\* C26 as stated: an in-bounds page change moves current_metric_page by one
\* page when the input is handled and starts a slide, leaving the displayed
\* name and the graph page as they were; while the slide is in its outbound
\* half the displayed name and the graph page keep showing the old page; the
\* update that ends the outbound half switches both to current_metric_page
C26_DisplaySwitchesAtPhaseBoundary ==
    /\ [][PageChange
            => /\ Abs(current_metric_page' - current_metric_page) = 1
               /\ name_text' = name_text
               /\ s_graph_display_page' = s_graph_display_page
               /\ CurrentScrollKind' = "slide"
               /\ scroll_anims'[s_current_animation'].tick = 0]_vars
    /\ [][OutboundRunning /\ OutboundRunning'
            => /\ name_text' = name_text
               /\ s_graph_display_page' = s_graph_display_page]_vars
    /\ [][OutboundStops
            => /\ name_text' = plain_name(current_metric_page)
               /\ s_graph_display_page' = current_metric_page]_vars

\* ------------------------------------------------------------------------
\* The value animation of a slide run on its own
\* ------------------------------------------------------------------------

\* the display values of the two pages
ValueTexts == {<<"0">>,
               <<"0", ".", "9", "5">>,
               <<"-", "3", ".", "5">>,
               <<"1", "2", ".", "3", "4", "5", "6">>,
               <<"1", "5", "0", ".", "2", "5">>,
               <<"2", "0", "0", "0", "0", "0">>,
               <<"-", "1", "0", "0", "0", "0", "0">>}

\* the progress values the animation is updated with
ProgressSamples == {0, 1, 21845, 32768, 65534, ANIMATION_NORMALIZED_MAX}

\* the state of the detail window the value animation does not touch
value_anim_frame == <<app_vars, s_graph_display_page, name_text, s_current_animation,
                      scroll_anims, cursor_vars, wiggle_vars, scrub_vars, timer_vars,
                      button_vars, inputs>>

value_anim_idle == <<codec_vars, graph_vars, pack_vars, history_vars, send_vars,
                     interp_vars, net_vars>>

ValueAnimInit ==
    /\ AppInit
    /\ CodecIdle
    /\ GraphIdle
    /\ PackIdle
    /\ HistoryIdle
    /\ SendIdle
    /\ InterpIdle
    /\ NetIdle
    /\ value_anim_pc = "create"
    /\ from_value \in ValueTexts
    /\ to_value \in ValueTexts
    /\ value_anim_progress = -1

\* create_value_interpolation_animation(from_value, to_value)
ValueAnimCreate ==
    /\ value_anim_pc = "create"
    /\ value_anim_pc' = "running"
    /\ create_value_interpolation_animation(from_value, to_value)
    /\ UNCHANGED <<value_text, value_anim_frame, value_anim_idle, from_value, to_value,
                   value_anim_progress>>

\* value_animation_update(animation, progress)
ValueAnimUpdate ==
    /\ value_anim_pc = "running"
    /\ \E progress \in ProgressSamples :
           /\ progress > value_anim_progress
           /\ value_anim_progress' = progress
           /\ value_text' = value_animation_update(progress)
    /\ UNCHANGED <<s_value_from, s_value_to, s_value_decimals, value_anim_frame,
                   value_anim_idle, value_anim_pc, from_value, to_value>>

\* value_animation_teardown(animation): the page shown is the new page
ValueAnimTeardown ==
    /\ value_anim_pc = "running"
    /\ value_anim_progress = ANIMATION_NORMALIZED_MAX
    /\ value_anim_pc' = "done"
    /\ value_text' = to_value
    /\ UNCHANGED <<s_value_from, s_value_to, s_value_decimals, value_anim_frame,
                   value_anim_idle, from_value, to_value, value_anim_progress>>

ValueAnimNext == ValueAnimCreate \/ ValueAnimUpdate \/ ValueAnimTeardown

ValueAnimSpec == ValueAnimInit /\ [][ValueAnimNext]_<<vars, aux_vars>>

\* ------------------------------------------------------------------------
\* C27: the animated value of a page change
\* ------------------------------------------------------------------------

\* C27 as stated: for a page change from value text a to value text b the
\* animated value is the value of a at progress 0 and the value of b at full
\* progress, lies between the two at every update, is shown with
\* max(decimals(a), decimals(b)) fractional digits, and on completion the
\* value text is the new page's display value itself
C27_AnimatedValueBetween ==
    LET a == ScaledValue(from_value)
        b == ScaledValue(to_value)
        da == Len(FracText(Unsigned(from_value)))
        db == Len(FracText(Unsigned(to_value)))
    IN  /\ (value_anim_pc = "running" /\ value_anim_progress >= 0)
           => /\ value_anim_progress = 0 => ScaledValue(value_text) = a
              /\ value_anim_progress = ANIMATION_NORMALIZED_MAX
                 => ScaledValue(value_text) = b
              /\ Between(ScaledValue(value_text), a, b)
              /\ Len(FracText(Unsigned(value_text))) = IF da > db THEN da ELSE db
        /\ value_anim_pc = "done" => value_text = to_value

\* ------------------------------------------------------------------------
\* C28: RUNS_COUNT
\* ------------------------------------------------------------------------

\* the batch has come to its end: every run acknowledged, or a send failed
BatchOver == send_pc \in {"done", "failed"}

\* C28 as stated: RUNS_COUNT is carried by the first message of a batch and
\* by no other, and it equals the number of run messages the batch sends;
\* for an empty run list exactly one message is sent, which carries
\* RUNS_COUNT = 0 and no run field
C28_RunsCountAnnouncesBatch ==
    /\ \A i \in 1..Len(outbox) : ("RUNS_COUNT" \in DOMAIN outbox[i]) <=> (i = 1)
    /\ (BatchOver /\ Len(runs) > 0) => outbox[1].RUNS_COUNT = Len(SentStates)
    /\ (BatchOver /\ Len(runs) = 0) => outbox = <<[RUNS_COUNT |-> 0]>>

\* ------------------------------------------------------------------------
\* C29: one run message at a time
\* ------------------------------------------------------------------------

\* the run messages handed to Pebble.sendAppMessage so far
RunMessagesSent == Len(SentStates)

\* the run messages acknowledged so far: index counts the success callbacks
RunMessagesAcked == send_index

\* C29: the run messages are sent one at a time in the order of the (sorted)
\* list: the i-th message is for the i-th run, a further run message is sent
\* only by the acknowledgement of the one before it, so that at most one is
\* outstanding at any time, and after a failed send no message of the batch
\* follows
C29_OneMessageAtATime ==
    /\ [](/\ \A i \in 1..RunMessagesSent :
                i <= Len(runs) /\ outbox[i].RUN_NAME = runs[i].name
          /\ RunMessagesSent <= RunMessagesAcked + 1
          /\ send_pc = "sent" => RunMessagesSent = RunMessagesAcked + 1
          /\ send_pc \in {"done", "failed"} => RunMessagesSent <= Len(runs))
    /\ [][(RunMessagesSent > 0 /\ outbox' # outbox)
            => /\ send_pc = "sent"
               /\ RunMessagesAcked' = RunMessagesSent
               /\ outbox' = Append(outbox, RunMessage(runs, RunMessagesSent))]_send_vars
    /\ [][send_pc = "failed" => outbox' = outbox]_send_vars

\* the second of three run messages has failed
C29_Witness ==
    /\ send_pc = "failed"
    /\ Len(runs) = 3
    /\ RunMessagesAcked = 1
    /\ RunMessagesSent = 2
    /\ outbox[2].RUN_NAME = runs[2].name

\* ------------------------------------------------------------------------
\* C30: cursor and index at rest
\* ------------------------------------------------------------------------

\* C30 as stated: whenever scrub mode is active and no scrub-family
\* animation is in flight, the fractional cursor is on the discrete index:
\* s_scrub_current_index_fixed = s_scrub_index * 1000
C30_CursorOnIndexAtRest ==
    (window = "detail" /\ s_scrub_mode /\ Scheduled(scrub_anims) = {})
    => s_scrub_current_index_fixed = s_scrub_index * SCRUB_FIXED_SCALE

\* ------------------------------------------------------------------------
\* C31: nothing of the scrub family survives the detail window
\* ------------------------------------------------------------------------

\* a callback of the scrub family runs: an update or teardown of a
\* scrub-family animation, or the repeat timer's callback
ScrubFamilyCallback ==
    \/ TimerFire
    \/ \E h \in Handles : \/ ScrubTick(h) \/ ScrubTeardown(h) \/ BounceTeardown(h)
                           \/ WiggleTeardown(h) \/ ExitTeardown(h)

\* C31 as stated: once the detail window is unloaded no scrub-family
\* animation and no repeat timer is scheduled, and no callback of the scrub
\* family runs while the window is unloaded
C31_NothingSurvivesUnload ==
    /\ [](window = "menu" => (Scheduled(scrub_anims) = {} /\ ~s_scrub_repeat_timer))
    /\ [][window = "menu" => ~ScrubFamilyCallback]_vars

\* ------------------------------------------------------------------------
\* C33: reads of the history stay inside it
\* ------------------------------------------------------------------------

\* C33 as stated: for every history_count from 0 on, entering scrub mode
\* reads history[] only at indices within [0, history_count - 1] and leaves
\* s_scrub_index within [0, max(history_count - 1, 0)]; so does the value
\* display at every cursor position
C33_HistoryReadsInBounds ==
    LET count == Len(interp_history)
    IN  /\ interp_pc \in {"shown", "entered"} => interp_reads \subseteq 0..(count - 1)
        /\ interp_pc = "entered"
           => interp_scrub_index \in 0..(IF count >= 1 THEN count - 1 ELSE 0)

\* ------------------------------------------------------------------------
\* C34: no paging in scrub mode
\* ------------------------------------------------------------------------

\* a paging animation is started
PagingStarted ==
    \/ s_current_animation' # s_current_animation /\ s_current_animation' \in Handles
    \/ \E h \in Handles : /\ scroll_anims'[h] # NoAnim
                           /\ scroll_anims'[h].tick = 0
                           /\ scroll_anims'[h] # scroll_anims[h]

\* C34: while scrub mode is active no Up/Down press and no firing of the
\* repeat timer changes current_metric_page or selected_run_index or starts
\* a paging animation, and nothing else does while scrub mode stays active;
\* a press pages (do_scroll: a slide or a layer bounce is started) exactly
\* when scrub mode is inactive
C34_NoPagingInScrubMode ==
    /\ [][(s_scrub_mode /\ (PressUp \/ PressDown \/ TimerFire))
            => /\ UNCHANGED <<current_metric_page, selected_run_index>>
               /\ UNCHANGED <<s_current_animation, scroll_anims>>]_vars
    /\ [][(window = "detail" /\ s_scrub_mode /\ s_scrub_mode')
            => /\ UNCHANGED <<current_metric_page, selected_run_index>>
               /\ ~PagingStarted]_vars
    /\ [][(~s_scrub_mode /\ (PressUp \/ PressDown))
            => /\ CurrentScrollKind' \in {"slide", "layer_bounce"}
               /\ scroll_anims'[s_current_animation'].tick = 0
               /\ UNCHANGED <<scrub_vars, cursor_vars>>]_vars

\* Up has been pressed in scrub mode on the second page
C34_Witness ==
    /\ window = "detail"
    /\ s_scrub_mode
    /\ up_held
    /\ current_metric_page = 1
    /\ CurrentScrubKind \in {"scrub", "bounce"}

\* ------------------------------------------------------------------------
\* The companion's WandbClient.prototype.request called on its own
\* ------------------------------------------------------------------------

maxRetries == 3

request_idle == <<vars, codec_vars, graph_vars, pack_vars, history_vars, send_vars,
                  interp_vars, value_anim_vars, fetch_vars>>

RequestInit ==
    /\ AppInit
    /\ CodecIdle
    /\ GraphIdle
    /\ PackIdle
    /\ HistoryIdle
    /\ SendIdle
    /\ InterpIdle
    /\ ValueAnimIdle
    /\ FetchIdle
    /\ request_pc = "call"
    /\ currentRetry = 0
    /\ attempts = <<>>
    /\ callback_calls = <<>>

\* the retry branch shared by the failure paths: a timer for the next
\* attempt while currentRetry < maxRetries, else callback(message, null)
RetryOrFail(calls, message) ==
    IF currentRetry < maxRetries
    THEN /\ request_pc' = "timer"
         /\ callback_calls' = calls
    ELSE /\ request_pc' = "returned"
         /\ callback_calls' = Append(calls, message)

\* a call of callback inside the try block of onreadystatechange: an
\* exception thrown by callback lands in the catch block of the parse error
CallbackInTry(argument, throws) ==
    IF throws
    THEN RetryOrFail(Append(callback_calls, argument), "JSON parse error")
    ELSE /\ request_pc' = "returned"
         /\ callback_calls' = Append(callback_calls, argument)

\* request(query, variables, callback, retryCount) up to xhr.send: the
\* request is on its way
SendOk ==
    /\ request_pc = "call"
    /\ request_pc' = "in_flight"
    /\ UNCHANGED <<currentRetry, attempts, callback_calls, request_idle>>

\* xhr.send throws
SendThrows ==
    /\ request_pc = "call"
    /\ attempts' = Append(attempts, "send exception")
    /\ RetryOrFail(callback_calls, "Send error")
    /\ UNCHANGED <<currentRetry, request_idle>>

\* xhr.onerror
NetworkError ==
    /\ request_pc = "in_flight"
    /\ attempts' = Append(attempts, "network error")
    /\ RetryOrFail(callback_calls, "Network error")
    /\ UNCHANGED <<currentRetry, request_idle>>

\* xhr.onreadystatechange with readyState 4 and status >= 500 or 0
ServerError ==
    /\ request_pc = "in_flight"
    /\ attempts' = Append(attempts, "status 5xx")
    /\ RetryOrFail(callback_calls, "HTTP")
    /\ UNCHANGED <<currentRetry, request_idle>>

\* xhr.onreadystatechange with readyState 4 and another status than 200
ClientError ==
    /\ request_pc = "in_flight"
    /\ attempts' = Append(attempts, "status 4xx")
    /\ request_pc' = "returned"
    /\ callback_calls' = Append(callback_calls, "HTTP")
    /\ UNCHANGED <<currentRetry, request_idle>>

\* status 200 and JSON.parse throws
ParseError ==
    /\ request_pc = "in_flight"
    /\ attempts' = Append(attempts, "parse error")
    /\ RetryOrFail(callback_calls, "JSON parse error")
    /\ UNCHANGED <<currentRetry, request_idle>>

\* status 200 and a response with errors: callback(response.errors, null)
ResponseErrors ==
    /\ request_pc = "in_flight"
    /\ attempts' = Append(attempts, "errors")
    /\ \E throws \in BOOLEAN : CallbackInTry("errors", throws)
    /\ UNCHANGED <<currentRetry, request_idle>>

\* status 200 and a response with data: callback(null, response.data)
ResponseData ==
    /\ request_pc = "in_flight"
    /\ attempts' = Append(attempts, "data")
    /\ \E throws \in BOOLEAN : CallbackInTry("data", throws)
    /\ UNCHANGED <<currentRetry, request_idle>>

\* the timer of a retry fires: self.request(query, variables, callback,
\* currentRetry + 1)
RetryTimer ==
    /\ request_pc = "timer"
    /\ request_pc' = "call"
    /\ currentRetry' = currentRetry + 1
    /\ UNCHANGED <<attempts, callback_calls, request_idle>>

RequestNext ==
    \/ SendOk
    \/ SendThrows
    \/ NetworkError
    \/ ServerError
    \/ ClientError
    \/ ParseError
    \/ ResponseErrors
    \/ ResponseData
    \/ RetryTimer

\* a request on its way ends with one of the events, and a timer fires
RequestSpec ==
    /\ RequestInit
    /\ [][RequestNext]_<<vars, aux_vars>>
    /\ WF_<<vars, aux_vars>>(RequestNext)

\* ------------------------------------------------------------------------
\* C35: request calls back exactly once
\* ------------------------------------------------------------------------

\* C35 as stated: a call of request makes at most 4 attempts, calls its
\* callback at most once on the way and, whatever events the attempts end
\* with, eventually returns having called it exactly once
C35_CallbackExactlyOnce ==
    /\ [](Len(attempts) <= maxRetries + 1)
    /\ [](Len(callback_calls) <= 1)
    /\ [](request_pc = "returned" => Len(callback_calls) = 1)
    /\ <>(request_pc = "returned")

\* ------------------------------------------------------------------------
\* The companion's WandbClient.prototype.fetchAllRuns called on its own
\* ------------------------------------------------------------------------

\* largest number of projects of the entity
MaxProjects == 3

\* largest number of runs a project's fetch returns
MaxProjectRuns == 2

\* what a request calls back with: an error (after its retries), or data;
\* the data of a run fetch has no project.runs or has k runs. A call with
\* null data throws on the first line of the callback (lines 138, 144, 157),
\* before any assignment, and request retries it: the call that takes effect
\* is the last one, which is one of these answers. The callback handed to
\* fetchAllRuns returns normally, as the one of the ready handler does.
NotAnswered == [err |-> FALSE, runs |-> -1]

Failure == [err |-> TRUE, runs |-> 0]

RunAnswers == {Failure} \cup {[err |-> FALSE, runs |-> k] : k \in 0..MaxProjectRuns}

\* the elements pushed to allRuns for the answer of a project
PushedRuns(project, answer) ==
    [i \in 1..(IF answer.err THEN 0 ELSE answer.runs) |-> [project |-> project, run |-> i]]

fetch_idle == <<vars, codec_vars, graph_vars, pack_vars, history_vars, send_vars,
                interp_vars, value_anim_vars, request_vars>>

FetchInit ==
    /\ AppInit
    /\ CodecIdle
    /\ GraphIdle
    /\ PackIdle
    /\ HistoryIdle
    /\ SendIdle
    /\ InterpIdle
    /\ ValueAnimIdle
    /\ RequestIdle
    /\ fetch_pc = "viewer"
    /\ allProjects = <<>>
    /\ answers = <<>>
    /\ answered = {}
    /\ pendingProjects = 0
    /\ allRuns = <<>>
    /\ fetch_callbacks = <<>>

\* the callback of fetchViewer
ViewerAnswer ==
    /\ fetch_pc = "viewer"
    /\ \E err \in BOOLEAN :
           IF err
           THEN /\ fetch_callbacks' = Append(fetch_callbacks, [err |-> TRUE, runs |-> <<>>])
                /\ fetch_pc' = "done"
           ELSE /\ fetch_pc' = "projects"
                /\ UNCHANGED fetch_callbacks
    /\ UNCHANGED <<allProjects, answers, answered, pendingProjects, allRuns, fetch_idle>>

\* the callback of fetchProjects
ProjectsAnswer ==
    /\ fetch_pc = "projects"
    /\ \/ /\ fetch_callbacks' = Append(fetch_callbacks, [err |-> TRUE, runs |-> <<>>])
          /\ fetch_pc' = "done"
          /\ UNCHANGED <<allProjects, answers, pendingProjects>>
       \/ \E n \in 0..MaxProjects :
             /\ allProjects' = [i \in 1..n |-> i]
             /\ IF n = 0
                THEN /\ fetch_callbacks' = Append(fetch_callbacks,
                                                  [err |-> FALSE, runs |-> <<>>])
                     /\ fetch_pc' = "done"
                     /\ UNCHANGED <<answers, pendingProjects>>
                ELSE /\ pendingProjects' = n
                     /\ answers' = [i \in 1..n |-> NotAnswered]
                     /\ fetch_pc' = "runs"
                     /\ UNCHANGED fetch_callbacks
    /\ UNCHANGED <<answered, allRuns, fetch_idle>>

\* mutant of AllAnswered: the callback is called with one fetch outstanding
AllAnswered_OneLeft(pending) == pending <= 1

\* pendingProjects === 0
AllAnswered(pending) == pending = 0

\* the callback of the fetchRuns of a project
RunsAnswer(project) ==
    /\ fetch_pc = "runs"
    /\ project \in 1..Len(allProjects)
    /\ project \notin answered
    /\ \E answer \in RunAnswers :
           /\ answers' = [answers EXCEPT ![project] = answer]
           /\ allRuns' = allRuns \o PushedRuns(project, answer)
    /\ answered' = answered \cup {project}
    /\ pendingProjects' = pendingProjects - 1
    /\ fetch_callbacks' = IF AllAnswered(pendingProjects')
                          THEN Append(fetch_callbacks, [err |-> FALSE, runs |-> allRuns'])
                          ELSE fetch_callbacks
    /\ fetch_pc' = IF answered' = 1..Len(allProjects) THEN "done" ELSE "runs"
    /\ UNCHANGED <<allProjects, fetch_idle>>

FetchNext ==
    \/ ViewerAnswer
    \/ ProjectsAnswer
    \/ \E project \in 1..MaxProjects : RunsAnswer(project)

\* every request calls back in the end
FetchSpec ==
    /\ FetchInit
    /\ [][FetchNext]_<<vars, aux_vars>>
    /\ WF_<<vars, aux_vars>>(FetchNext)

\* ------------------------------------------------------------------------
\* C36: fetchAllRuns calls back once, with the runs of every project
\* ------------------------------------------------------------------------

\* the elements of a sequence
Elements(seq) == {seq[i] : i \in 1..Len(seq)}

\* the runs of the projects whose fetch succeeded
RunsFetched ==
    UNION {Elements(PushedRuns(project, answers[project])) : project \in 1..Len(answers)}

\* C36: fetchAllRuns calls its callback at most once at any time and exactly
\* once in the end; with projects to fetch the call comes only when the run
\* fetch of every project has called back, in whatever order they do, and
\* its result holds, once each, the runs of every fetch that succeeded and
\* nothing of those that failed
C36_FetchAllRunsCallsBackOnce ==
    /\ [](Len(fetch_callbacks) <= 1)
    /\ [](fetch_pc = "done" => Len(fetch_callbacks) = 1)
    /\ <>(fetch_pc = "done")
    /\ []((fetch_callbacks # <<>> /\ Len(allProjects) > 0)
           => /\ answered = 1..Len(allProjects)
              /\ ~fetch_callbacks[1].err
              /\ Elements(fetch_callbacks[1].runs) = RunsFetched
              /\ Len(fetch_callbacks[1].runs) = Cardinality(RunsFetched))

\* three projects answered in the order 3, 1, 2: one failed, two with runs
C36_Witness ==
    /\ fetch_pc = "done"
    /\ Len(allProjects) = 3
    /\ answers[1] = Failure
    /\ answers[2].runs = 1
    /\ answers[3].runs = 2
    /\ fetch_callbacks[1].runs
          = <<[project |-> 3, run |-> 1], [project |-> 3, run |-> 2], [project |-> 2, run |-> 1]>>

\* ------------------------------------------------------------------------
\* C37: the built-in data set agrees with itself
\* ------------------------------------------------------------------------

\* the last history sample of a built-in metric (1-based run and metric)
LastSample(r, m) == MockHistory[r][m][Len(MockHistory[r][m])]

\* the built-in metric's last sample is the parse of its display value, and
\* formatting it with the display value's decimals gives the display value
MockMetricConsistent(r, m) ==
    LET parsed == parse_fixed_point(MockValues[r][m])
    IN  /\ LastSample(r, m) = parsed.value
        /\ format_fixed_point(LastSample(r, m), parsed.decimals) = MockValues[r][m]

\* scrub mode is entered in this step
ScrubModeEntered == ~s_scrub_mode /\ s_scrub_mode'

\* C37: for every metric of the built-in data set the last history sample
\* equals parse_fixed_point(display value) and formats, with the display
\* value's decimal count, to the display value; so the value text shown on
\* entering scrub mode is the display value of the page, the text browsing
\* shows for it
C37_MockDataConsistent ==
    /\ \A r \in 1..Len(MockValues) : \A m \in 1..Len(MockValues[r]) :
          MockMetricConsistent(r, m)
    /\ [][ScrubModeEntered
           => value_text' = metric_value(selected_run_index', current_metric_page')]_vars

\* scrub mode entered on the second page kept, the cursor still on the
\* last sample, the value text that of browsing
C37_Witness ==
    /\ window = "detail"
    /\ s_scrub_mode
    /\ current_metric_page = 1
    /\ s_scrub_current_index_fixed = (CurrentHistoryCount - 1) * SCRUB_FIXED_SCALE
    /\ s_scrub_index = CurrentHistoryCount - 1
    /\ value_text = metric_value(selected_run_index, current_metric_page)
    /\ value_text = <<"0", ".", "0", "0", "0", "1">>

=============================================================================
